---- MODULE Spec2Model ----
(***************************************************************************)
(* Query construction and percentile ranking of the GMTM agent SDK:        *)
(* agents/query_builder.py (term normalizer, filter parser, query          *)
(* assembler) and agents/nfl_benchmark_agent.py (percentile engine).       *)
(*                                                                         *)
(* Strings are Python strings.  A float is held as the integer number of   *)
(* thousandths (4.5 is 4500), which is exact for the literals used here.   *)
(* None is the model value None.                                           *)
(***************************************************************************)
EXTENDS Integers, Sequences, FiniteSets, TLC

VARIABLES
    call,             \* the function called
    pc,               \* "called", then "returned"
    arg_text,         \* parse_metric_condition: its argument
    parsed,           \* parse_metric_condition: the value returned
    request,          \* build_search_query: its arguments
    arg_filters,      \* build_athlete_search_query: the SearchFilters given
    arg_include_metrics,  \* build_athlete_search_query: include_metrics
    query,            \* the query returned
    arg_values,       \* calculate_percentile: the population
    arg_lower_is_better,  \* calculate_percentile: the direction flag
    seen,             \* calculate_percentile: <<value, percentile>> returned so far
    arg_value,        \* find_player_comparisons: the subject's value
    arg_athletes,     \* find_player_comparisons: the population
    arg_limit,        \* find_player_comparisons: limit
    comparisons,      \* find_player_comparisons: the three lists returned
    arg_athlete,      \* camp finders: the athlete profile
    heap,             \* camp finders: the event dicts, by object identity
    arg_events,       \* camp finders: the list of events given to the ranker
    ranked,           \* camp finders: the list the ranker returned
    arg_max_results,  \* find_camps_for_athlete: max_results
    top_events,       \* find_camps_for_athlete: the camps returned
    now,              \* the clock: what datetime.now() returns
    history,          \* camp finders: what each ranking so far read and returned
    tables,           \* query_builder: the module's static tables
    calls,            \* query_builder: the calls made so far, as given and as left
    arg_user_id,      \* analyze_profile: the athlete
    metrics_db,       \* the metrics table: the current value of a user and a title
    analysis,         \* analyze_profile: the dict returned
    finders,          \* concurrent find_camps_for_athlete calls: the locals of each
    arg_sql,          \* _run_read_only_query: the statement given
    executed,         \* the statements sent to the GMTM database so far
    reply,            \* _run_read_only_query: the dict returned
    arg_payload,      \* create_from_onboarding: state and recruiting goals
    match_result,     \* create_from_onboarding: what match_programs returned
    college_targets,  \* the rows of college_targets of the profile
    colleges_matched  \* create_from_onboarding: the count returned

queryvars == <<arg_text, parsed, request, arg_filters, arg_include_metrics, query>>
cmpvars == <<arg_value, arg_athletes, arg_limit, comparisons>>
benchvars == <<arg_values, arg_lower_is_better, seen, cmpvars>>
campvars == <<arg_athlete, heap, arg_events, ranked, arg_max_results, top_events, now,
              history>>
purevars == <<tables, calls>>
profilevars == <<arg_user_id, metrics_db, analysis>>
apivars == <<arg_sql, executed, reply, arg_payload, match_result, college_targets,
             colleges_matched>>
toolvars == <<profilevars, finders, apivars>>
latervars == <<cmpvars, campvars, purevars, toolvars>>

vars == <<call, pc, arg_text, parsed, request, arg_filters, arg_include_metrics, query,
          arg_values, arg_lower_is_better, seen, latervars>>

\* Optional[T]: None is the empty tuple, a value x is <<x>>.
None == <<>>
Some(x) == <<x>>

\* query_builder.py METRIC_MAPPINGS: natural language metric name -> database title
METRIC_MAPPINGS ==
    ("40" :> "40 Yard Dash")
    @@ ("40 yard" :> "40 Yard Dash")
    @@ ("40-yard" :> "40 Yard Dash")
    @@ ("40 yard dash" :> "40 Yard Dash")
    @@ ("40-yard dash" :> "40 Yard Dash")
    @@ ("forty" :> "40 Yard Dash")
    @@ ("forty yard" :> "40 Yard Dash")
    @@ ("forty yard dash" :> "40 Yard Dash")
    @@ ("40 time" :> "40 Yard Dash")
    @@ ("vertical" :> "Vertical Jump")
    @@ ("vert" :> "Vertical Jump")
    @@ ("vertical jump" :> "Vertical Jump")
    @@ ("verticle" :> "Vertical Jump")
    @@ ("5-10-5" :> "5-10-5 shuttle")
    @@ ("5-10-5 shuttle" :> "5-10-5 shuttle")
    @@ ("shuttle" :> "5-10-5 shuttle")
    @@ ("pro agility" :> "5-10-5 shuttle")
    @@ ("20 yard shuttle" :> "20 Yard Shuttle")
    @@ ("bench" :> "Bench Press")
    @@ ("bench press" :> "Bench Press")
    @@ ("185 bench" :> "185 Bench")
    @@ ("185" :> "185 Bench")
    @@ ("225 bench" :> "225 Pound Bench Press")
    @@ ("225" :> "225 Pound Bench Press")
    @@ ("squat" :> "Squat")
    @@ ("deadlift" :> "Deadlift")
    @@ ("clean" :> "Clean")
    @@ ("power clean" :> "Power Clean")
    @@ ("height" :> "Height")
    @@ ("weight" :> "Weight")
    @@ ("wingspan" :> "Wingspan")
    @@ ("hand size" :> "Hand Size")
    @@ ("broad jump" :> "Broad Jump")
    @@ ("long jump" :> "Long Jump")
    @@ ("standing broad" :> "Broad Jump")
    @@ ("spike touch" :> "Spike Touch")
    @@ ("block touch" :> "Block Touch")
    @@ ("reach" :> "1-hand reach")
    @@ ("1-hand reach" :> "1-hand reach")
    @@ ("2-hand reach" :> "2-hand reach")
    @@ ("100 meter" :> "100 Meter Dash")
    @@ ("100m" :> "100 Meter Dash")
    @@ ("speed" :> "Speed")
    @@ ("gpa" :> "GPA")
    @@ ("sat" :> "SAT")
    @@ ("act" :> "ACT")

\* query_builder.py LOWER_IS_BETTER: metrics sorted ascending
LOWER_IS_BETTER ==
    {"40 Yard Dash", "5-10-5 shuttle", "20 Yard Shuttle", "100 Meter Dash", "Speed"}

\* query_builder.py POSITION_MAPPINGS: position name -> position ids
POSITION_MAPPINGS ==
    ("quarterback" :> <<211, 240, 302, 327>>)
    @@ ("qb" :> <<211, 240, 302, 327>>)
    @@ ("running back" :> <<243, 297, 317, 324>>)
    @@ ("rb" :> <<243, 297, 317, 324>>)
    @@ ("halfback" :> <<243, 319>>)
    @@ ("hb" :> <<243, 319>>)
    @@ ("fullback" :> <<249>>)
    @@ ("fb" :> <<249>>)
    @@ ("wide receiver" :> <<256, 311, 317, 321>>)
    @@ ("wr" :> <<256, 311, 317, 321>>)
    @@ ("receiver" :> <<256, 311, 317, 321>>)
    @@ ("tight end" :> <<245>>)
    @@ ("te" :> <<245>>)
    @@ ("offensive line" :> <<264, 275, 244>>)
    @@ ("ol" :> <<264, 275, 244>>)
    @@ ("offensive lineman" :> <<264, 275, 244>>)
    @@ ("center" :> <<265>>)
    @@ ("guard" :> <<264, 282>>)
    @@ ("tackle" :> <<244>>)
    @@ ("offensive tackle" :> <<244>>)
    @@ ("ot" :> <<244>>)
    @@ ("linebacker" :> <<223, 225, 236, 237, 297, 318, 327>>)
    @@ ("lb" :> <<223, 225, 236, 237, 297, 318, 327>>)
    @@ ("middle linebacker" :> <<223, 297>>)
    @@ ("mlb" :> <<223, 297>>)
    @@ ("inside linebacker" :> <<225>>)
    @@ ("ilb" :> <<225>>)
    @@ ("outside linebacker" :> <<237, 318, 327>>)
    @@ ("olb" :> <<237, 318, 327>>)
    @@ ("defensive back" :> <<226, 227, 233, 234>>)
    @@ ("db" :> <<226, 227, 233, 234>>)
    @@ ("cornerback" :> <<227, 302, 311, 321>>)
    @@ ("cb" :> <<227, 302, 311, 321>>)
    @@ ("corner" :> <<227, 302, 311, 321>>)
    @@ ("safety" :> <<233, 234>>)
    @@ ("free safety" :> <<233>>)
    @@ ("fs" :> <<233>>)
    @@ ("strong safety" :> <<234, 318>>)
    @@ ("ss" :> <<234, 318>>)
    @@ ("defensive line" :> <<214, 217, 219>>)
    @@ ("dl" :> <<214, 217, 219>>)
    @@ ("defensive lineman" :> <<214, 217, 219>>)
    @@ ("defensive end" :> <<219, 307, 310, 322>>)
    @@ ("de" :> <<219, 307, 310, 322>>)
    @@ ("defensive tackle" :> <<214, 320>>)
    @@ ("dt" :> <<214, 320>>)
    @@ ("nose guard" :> <<320>>)
    @@ ("ng" :> <<320>>)
    @@ ("kicker" :> <<259>>)
    @@ ("k" :> <<259>>)
    @@ ("punter" :> <<260>>)
    @@ ("p" :> <<260>>)
    @@ ("long snapper" :> <<261, 307>>)
    @@ ("ls" :> <<261, 307>>)
    @@ ("athlete" :> <<253>>)
    @@ ("ath" :> <<253>>)
    @@ ("dual" :> <<212, 241>>)

\* query_builder.py STATE_MAPPINGS: state name or abbreviation -> abbreviation
STATE_MAPPINGS ==
    ("alabama" :> "AL")
    @@ ("alaska" :> "AK")
    @@ ("arizona" :> "AZ")
    @@ ("arkansas" :> "AR")
    @@ ("california" :> "CA")
    @@ ("colorado" :> "CO")
    @@ ("connecticut" :> "CT")
    @@ ("delaware" :> "DE")
    @@ ("florida" :> "FL")
    @@ ("georgia" :> "GA")
    @@ ("hawaii" :> "HI")
    @@ ("idaho" :> "ID")
    @@ ("illinois" :> "IL")
    @@ ("indiana" :> "IN")
    @@ ("iowa" :> "IA")
    @@ ("kansas" :> "KS")
    @@ ("kentucky" :> "KY")
    @@ ("louisiana" :> "LA")
    @@ ("maine" :> "ME")
    @@ ("maryland" :> "MD")
    @@ ("massachusetts" :> "MA")
    @@ ("michigan" :> "MI")
    @@ ("minnesota" :> "MN")
    @@ ("mississippi" :> "MS")
    @@ ("missouri" :> "MO")
    @@ ("montana" :> "MT")
    @@ ("nebraska" :> "NE")
    @@ ("nevada" :> "NV")
    @@ ("new hampshire" :> "NH")
    @@ ("new jersey" :> "NJ")
    @@ ("new mexico" :> "NM")
    @@ ("new york" :> "NY")
    @@ ("north carolina" :> "NC")
    @@ ("north dakota" :> "ND")
    @@ ("ohio" :> "OH")
    @@ ("oklahoma" :> "OK")
    @@ ("oregon" :> "OR")
    @@ ("pennsylvania" :> "PA")
    @@ ("rhode island" :> "RI")
    @@ ("south carolina" :> "SC")
    @@ ("south dakota" :> "SD")
    @@ ("tennessee" :> "TN")
    @@ ("texas" :> "TX")
    @@ ("utah" :> "UT")
    @@ ("vermont" :> "VT")
    @@ ("virginia" :> "VA")
    @@ ("washington" :> "WA")
    @@ ("west virginia" :> "WV")
    @@ ("wisconsin" :> "WI")
    @@ ("wyoming" :> "WY")
    @@ ("district of columbia" :> "DC")
    @@ ("al" :> "AL")
    @@ ("ak" :> "AK")
    @@ ("az" :> "AZ")
    @@ ("ar" :> "AR")
    @@ ("ca" :> "CA")
    @@ ("co" :> "CO")
    @@ ("ct" :> "CT")
    @@ ("de" :> "DE")
    @@ ("fl" :> "FL")
    @@ ("ga" :> "GA")
    @@ ("hi" :> "HI")
    @@ ("id" :> "ID")
    @@ ("il" :> "IL")
    @@ ("in" :> "IN")
    @@ ("ia" :> "IA")
    @@ ("ks" :> "KS")
    @@ ("ky" :> "KY")
    @@ ("la" :> "LA")
    @@ ("me" :> "ME")
    @@ ("md" :> "MD")
    @@ ("ma" :> "MA")
    @@ ("mi" :> "MI")
    @@ ("mn" :> "MN")
    @@ ("ms" :> "MS")
    @@ ("mo" :> "MO")
    @@ ("mt" :> "MT")
    @@ ("ne" :> "NE")
    @@ ("nv" :> "NV")
    @@ ("nh" :> "NH")
    @@ ("nj" :> "NJ")
    @@ ("nm" :> "NM")
    @@ ("ny" :> "NY")
    @@ ("nc" :> "NC")
    @@ ("nd" :> "ND")
    @@ ("oh" :> "OH")
    @@ ("ok" :> "OK")
    @@ ("or" :> "OR")
    @@ ("pa" :> "PA")
    @@ ("ri" :> "RI")
    @@ ("sc" :> "SC")
    @@ ("sd" :> "SD")
    @@ ("tn" :> "TN")
    @@ ("tx" :> "TX")
    @@ ("ut" :> "UT")
    @@ ("vt" :> "VT")
    @@ ("va" :> "VA")
    @@ ("wa" :> "WA")
    @@ ("wv" :> "WV")
    @@ ("wi" :> "WI")
    @@ ("wy" :> "WY")
    @@ ("dc" :> "DC")
    @@ ("ontario" :> "ON")
    @@ ("quebec" :> "QC")
    @@ ("british columbia" :> "BC")
    @@ ("alberta" :> "AB")
    @@ ("manitoba" :> "MB")
    @@ ("saskatchewan" :> "SK")
    @@ ("nova scotia" :> "NS")
    @@ ("new brunswick" :> "NB")
    @@ ("newfoundland" :> "NL")
    @@ ("prince edward island" :> "PE")
    @@ ("on" :> "ON")
    @@ ("qc" :> "QC")
    @@ ("bc" :> "BC")
    @@ ("ab" :> "AB")
    @@ ("mb" :> "MB")
    @@ ("sk" :> "SK")

\* query_builder.py SPORT_MAPPINGS: sport name -> sport_id
SPORT_MAPPINGS ==
    ("football" :> 1)
    @@ ("american football" :> 1)
    @@ ("basketball" :> 2)
    @@ ("wrestling" :> 3)
    @@ ("volleyball" :> 4)
    @@ ("baseball" :> 5)
    @@ ("soccer" :> 6)
    @@ ("lacrosse" :> 7)
    @@ ("golf" :> 8)
    @@ ("gymnastics" :> 9)
    @@ ("softball" :> 10)
    @@ ("swimming" :> 11)
    @@ ("track" :> 12)
    @@ ("track and field" :> 12)
    @@ ("hockey" :> 13)
    @@ ("ice hockey" :> 13)
    @@ ("field hockey" :> 14)
    @@ ("water polo" :> 15)
    @@ ("cheer" :> 16)
    @@ ("dance" :> 17)
    @@ ("cross country" :> 19)
    @@ ("xc" :> 19)
    @@ ("tennis" :> 22)
    @@ ("rugby" :> 21)

(***************************************************************************)
(* Python str operations                                                   *)
(***************************************************************************)
CharAt(s, i) == SubSeq(s, i, i)

UpperLetters == "ABCDEFGHIJKLMNOPQRSTUVWXYZ"
LowerLetters == "abcdefghijklmnopqrstuvwxyz"
Digits == {"0", "1", "2", "3", "4", "5", "6", "7", "8", "9"}
UpperSet == {CharAt(UpperLetters, i) : i \in 1..26}
LowerSet == {CharAt(LowerLetters, i) : i \in 1..26}
\* str.strip() and the regex class \s
Whitespace == {" ", "\t", "\n", "\r"}
\* the regex class \w, which decides \b
WordChars == UpperSet \cup LowerSet \cup Digits \cup {"_"}

LowerOf ==
    [c \in UpperSet |->
        CharAt(LowerLetters, CHOOSE i \in 1..26 : CharAt(UpperLetters, i) = c)]

LowerChar(c) == IF c \in UpperSet THEN LowerOf[c] ELSE c

\* str.lower()
RECURSIVE Lower(_)
Lower(s) == IF s = "" THEN "" ELSE LowerChar(Head(s)) \o Lower(Tail(s))

RECURSIVE LStrip(_)
LStrip(s) == IF s # "" /\ Head(s) \in Whitespace THEN LStrip(Tail(s)) ELSE s

RECURSIVE RStrip(_)
RStrip(s) ==
    IF s # "" /\ CharAt(s, Len(s)) \in Whitespace
    THEN RStrip(SubSeq(s, 1, Len(s) - 1))
    ELSE s

\* str.strip()
Strip(s) == RStrip(LStrip(s))

DigitValue(c) == CHOOSE d \in 0..9 : CharAt("0123456789", d + 1) = c

\* int() of a string of digits
RECURSIVE IntOf(_)
IntOf(s) ==
    IF s = "" THEN 0
    ELSE 10 * IntOf(SubSeq(s, 1, Len(s) - 1)) + DigitValue(CharAt(s, Len(s)))

\* float() of a literal matched by \d+\.?\d*, in thousandths; the literals
\* parsed have at most three fractional digits.
FloatOf(s) ==
    LET dots == {i \in 1..Len(s) : CharAt(s, i) = "."}
        dot  == IF dots = {} THEN Len(s) + 1 ELSE CHOOSE i \in dots : TRUE
        ip   == SubSeq(s, 1, dot - 1)
        fp   == IF dot >= Len(s) THEN "" ELSE SubSeq(s, dot + 1, Len(s))
        pad  == SubSeq(fp \o "000", 1, 3)
    IN  IntOf(ip) * 1000 + IntOf(pad)

(***************************************************************************)
(* Python re: a pattern is a sequence of atoms; Match is the backtracking  *)
(* matcher of re (greedy quantifiers, alternatives tried left to right),   *)
(* Search is re.search (leftmost start, first match in priority order).    *)
(***************************************************************************)
Lit(s)      == [k |-> "lit", ss |-> <<s>>]
\* (a|b|c): alternatives are literals, tried in order
Alt(ss)     == [k |-> "alt", ss |-> ss]
\* (?:a|b)? and x?: greedy, the alternatives first and then the empty match
Opt(ss)     == [k |-> "opt", ss |-> ss]
\* [class]*: greedy
Star(c)     == [k |-> "star", c |-> c]
Cls(c)      == [k |-> "cls", c |-> c]
Open(g)     == [k |-> "open", g |-> g]
Close(g)    == [k |-> "close", g |-> g]
WordBoundary == [k |-> "wb"]

NoMatch == [ok |-> FALSE]
NoCaps  == [g \in 1..2 |-> <<0, 0>>]

StartsWith(s, pos, w) ==
    /\ pos + Len(w) - 1 <= Len(s)
    /\ (w = "" \/ SubSeq(s, pos, pos + Len(w) - 1) = w)

IsWordAt(s, i) == i >= 1 /\ i <= Len(s) /\ CharAt(s, i) \in WordChars

RECURSIVE Match(_, _, _, _, _)
RECURSIVE MatchAlts(_, _, _, _, _, _)

\* the alternatives a.ss[j..] of atom p[i] in order; an "opt" atom ends with
\* the empty alternative
MatchAlts(p, i, s, pos, caps, j) ==
    LET a == p[i] IN
    IF j > Len(a.ss)
    THEN IF a.k = "opt" THEN Match(p, i + 1, s, pos, caps) ELSE NoMatch
    ELSE LET r == IF StartsWith(s, pos, a.ss[j])
                  THEN Match(p, i + 1, s, pos + Len(a.ss[j]), caps)
                  ELSE NoMatch
         IN  IF r.ok THEN r ELSE MatchAlts(p, i, s, pos, caps, j + 1)

Match(p, i, s, pos, caps) ==
    IF i > Len(p) THEN [ok |-> TRUE, end |-> pos, caps |-> caps]
    ELSE LET a == p[i] IN
      CASE a.k \in {"lit", "alt", "opt"} -> MatchAlts(p, i, s, pos, caps, 1)
        [] a.k = "cls" ->
             IF pos <= Len(s) /\ CharAt(s, pos) \in a.c
             THEN Match(p, i + 1, s, pos + 1, caps)
             ELSE NoMatch
        [] a.k = "star" ->
             LET more == IF pos <= Len(s) /\ CharAt(s, pos) \in a.c
                         THEN Match(p, i, s, pos + 1, caps)
                         ELSE NoMatch
             IN  IF more.ok THEN more ELSE Match(p, i + 1, s, pos, caps)
        [] a.k = "open" ->
             Match(p, i + 1, s, pos, [caps EXCEPT ![a.g] = <<pos, pos>>])
        [] a.k = "close" ->
             Match(p, i + 1, s, pos, [caps EXCEPT ![a.g] = <<caps[a.g][1], pos>>])
        [] a.k = "wb" ->
             IF IsWordAt(s, pos - 1) # IsWordAt(s, pos)
             THEN Match(p, i + 1, s, pos, caps)
             ELSE NoMatch

RECURSIVE SearchFrom(_, _, _)
SearchFrom(p, s, start) ==
    IF start > Len(s) + 1 THEN NoMatch
    ELSE LET r == Match(p, 1, s, start, NoCaps)
         IN  IF r.ok THEN r ELSE SearchFrom(p, s, start + 1)

\* re.search(p, s)
Search(p, s) == SearchFrom(p, s, 1)

\* match.group(g)
Group(s, m, g) ==
    IF m.caps[g][2] = m.caps[g][1] THEN ""
    ELSE SubSeq(s, m.caps[g][1], m.caps[g][2] - 1)

(***************************************************************************)
(* QueryBuilder: term normalizer                                           *)
(***************************************************************************)
\* dict.get(key): None when the key is missing
Get(table, key) == IF key \in DOMAIN table THEN Some(table[key]) ELSE None

\* the metric looked up as it is given
normalize_metric_as_given(metric) == Get(METRIC_MAPPINGS, metric)

normalize_metric(metric) ==
    LET metric_lower == Strip(Lower(metric))
    IN  Get(METRIC_MAPPINGS, metric_lower)

\* the state given is passed on when it is no key of STATE_MAPPINGS
normalize_state_passthrough(state) ==
    LET state_lower == Strip(Lower(state))
    IN  IF state_lower \in DOMAIN STATE_MAPPINGS
        THEN Some(STATE_MAPPINGS[state_lower]) ELSE Some(state)

normalize_state(state) ==
    LET state_lower == Strip(Lower(state))
    IN  Get(STATE_MAPPINGS, state_lower)

\* POSITION_MAPPINGS.get(position_lower, [])
normalize_position(position) ==
    LET position_lower == Strip(Lower(position))
    IN  IF position_lower \in DOMAIN POSITION_MAPPINGS
        THEN POSITION_MAPPINGS[position_lower]
        ELSE <<>>

\* the sport of the first key that starts with the term given
normalize_sport_nearest(sport) ==
    LET sport_lower == Strip(Lower(sport))
        near == {k \in DOMAIN SPORT_MAPPINGS :
                    /\ Len(k) >= Len(sport_lower)
                    /\ SubSeq(k, 1, Len(sport_lower)) = sport_lower}
    IN  IF near = {} THEN None
        ELSE Some(SPORT_MAPPINGS[CHOOSE k \in near : TRUE])

normalize_sport(sport) ==
    LET sport_lower == Strip(Lower(sport))
    IN  Get(SPORT_MAPPINGS, sport_lower)

\* re.sub(r'[^a-zA-Z0-9]', '_', s)
RECURSIVE SubNonAlnum(_)
SubNonAlnum(s) ==
    IF s = "" THEN ""
    ELSE (IF Head(s) \in UpperSet \cup LowerSet \cup Digits THEN Head(s) ELSE "_")
         \o SubNonAlnum(Tail(s))

\* s[:n]
Prefix(s, n) == IF Len(s) <= n THEN s ELSE SubSeq(s, 1, n)

\* _make_alias: re.sub(r'[^a-zA-Z0-9]', '_', metric_name.lower())[:20]
make_alias(metric_name) == Prefix(SubNonAlnum(Lower(metric_name)), 20)

\* the dataclass MetricFilter
MetricFilter(metric_name, operator, value, alias) ==
    [metric_name |-> metric_name, operator |-> operator,
     value |-> value, alias |-> alias]

\* the dataclass SearchFilters
SearchFilters(metrics, positions, state, graduation_year, sport_id, limit, verified_only) ==
    [metrics |-> metrics, positions |-> positions, state |-> state,
     graduation_year |-> graduation_year, sport_id |-> sport_id,
     limit |-> limit, verified_only |-> verified_only]

(***************************************************************************)
(* QueryBuilder: filter parser                                             *)
(***************************************************************************)
\* (\d+\.?\d*) as group 1
NumberGroup ==
    <<Open(1), Cls(Digits), Star(Digits), Opt(<<".">>), Star(Digits), Close(1)>>

\* r'sub[- ]?(\d+\.?\d*)\s*(?:second)?\s*(40|forty|vert|vertical|shuttle)'
sub_pattern ==
    <<Lit("sub"), Opt(<<"-", " ">>)>> \o NumberGroup \o
    <<Star(Whitespace), Opt(<<"second">>), Star(Whitespace),
      Open(2), Alt(<<"40", "forty", "vert", "vertical", "shuttle">>), Close(2)>>

\* r'(?:under|below)\s+(\d+\.?\d*)\s*(?:second|s|inch|in)?\s*(40|forty|vert|vertical|shuttle|bench)'
under_pattern ==
    <<Alt(<<"under", "below">>), Cls(Whitespace), Star(Whitespace)>> \o
    NumberGroup \o
    <<Star(Whitespace), Opt(<<"second", "s", "inch", "in">>), Star(Whitespace),
      Open(2), Alt(<<"40", "forty", "vert", "vertical", "shuttle", "bench">>),
      Close(2)>>

\* r'(?:over|above)\s+(\d+\.?\d*)\s*(?:inch|in|"|\')?\s*(vert|vertical|broad|bench|height|weight)'
over_pattern ==
    <<Alt(<<"over", "above">>), Cls(Whitespace), Star(Whitespace)>> \o
    NumberGroup \o
    <<Star(Whitespace), Opt(<<"inch", "in", "\"", "'">>), Star(Whitespace),
      Open(2), Alt(<<"vert", "vertical", "broad", "bench", "height", "weight">>),
      Close(2)>>

\* r'(\d+\.?\d*)\s*(40|forty|shuttle|5-10-5)\s*(?:or better|or less)'
better_pattern ==
    NumberGroup \o
    <<Star(Whitespace), Open(2), Alt(<<"40", "forty", "shuttle", "5-10-5">>),
      Close(2), Star(Whitespace), Alt(<<"or better", "or less">>)>>

\* the four shapes of parse_metric_condition, in the order they are tried
ShapePattern == <<sub_pattern, under_pattern, over_pattern, better_pattern>>
\* the last shape given the "<" of the docstring's "or better" example
ShapeOperator_strict == <<"<", "<", ">", "<">>
ShapeOperator == <<"<", "<", ">", "<=">>

\* one "match = re.search(...); if match: ... if metric_name: return ..."
\* block: the MetricFilter it returns, or None when it falls through
ShapeBlock(text_lower, pattern, operator) ==
    LET match == Search(pattern, text_lower)
    IN  IF ~match.ok THEN None
        ELSE LET value       == FloatOf(Group(text_lower, match, 1))
                 metric_key  == Group(text_lower, match, 2)
                 metric_name == normalize_metric(metric_key)
             IN  IF metric_name # None
                 THEN Some(MetricFilter(metric_name[1], operator, value,
                                        make_alias(metric_name[1])))
                 ELSE None

RECURSIVE TryShapes(_, _)
TryShapes(text_lower, i) ==
    IF i > Len(ShapePattern) THEN None
    ELSE LET r == ShapeBlock(text_lower, ShapePattern[i], ShapeOperator[i])
         IN  IF r # None THEN r ELSE TryShapes(text_lower, i + 1)

parse_metric_condition(text) ==
    LET text_lower == Lower(text)
    IN  TryShapes(text_lower, 1)

\* class\s+of\s+(\d{4})
class_of_pattern ==
    <<Lit("class"), Cls(Whitespace), Star(Whitespace),
      Lit("of"), Cls(Whitespace), Star(Whitespace),
      Open(1), Cls(Digits), Cls(Digits), Cls(Digits), Cls(Digits), Close(1)>>

\* (?:graduating|grad)\s+(\d{4})
graduating_pattern ==
    <<Alt(<<"graduating", "grad">>), Cls(Whitespace), Star(Whitespace),
      Open(1), Cls(Digits), Cls(Digits), Cls(Digits), Cls(Digits), Close(1)>>

\* (\d{4})\s+(?:class|athletes?|recruits?)
year_noun_pattern ==
    <<Open(1), Cls(Digits), Cls(Digits), Cls(Digits), Cls(Digits), Close(1),
      Cls(Whitespace), Star(Whitespace),
      Alt(<<"class", "athletes", "athlete", "recruits", "recruit">>)>>

\* \b(202[4-9]|2030)\b
bare_year_pattern ==
    <<WordBoundary,
      Open(1), Alt(<<"2024", "2025", "2026", "2027", "2028", "2029", "2030">>),
      Close(1), WordBoundary>>

\* one "match = re.search(...); if match: return int(match.group(1))" block:
\* the year it returns, or None when it falls through
YearBlock(text_lower, pattern) ==
    LET match == Search(pattern, text_lower)
    IN  IF match.ok THEN Some(IntOf(Group(text_lower, match, 1))) ELSE None

\* the standalone year tried before the three phrases
parse_graduation_year_bare_first(text) ==
    LET text_lower == Lower(text)
        bare       == YearBlock(text_lower, bare_year_pattern)
        class_of   == YearBlock(text_lower, class_of_pattern)
        graduating == YearBlock(text_lower, graduating_pattern)
    IN  IF bare # None THEN bare
        ELSE IF class_of # None THEN class_of
        ELSE IF graduating # None THEN graduating
        ELSE YearBlock(text_lower, year_noun_pattern)

parse_graduation_year(text) ==
    LET text_lower == Lower(text)
        class_of   == YearBlock(text_lower, class_of_pattern)
        graduating == YearBlock(text_lower, graduating_pattern)
        year_noun  == YearBlock(text_lower, year_noun_pattern)
    IN  IF class_of # None THEN class_of
        ELSE IF graduating # None THEN graduating
        ELSE IF year_noun # None THEN year_noun
        ELSE YearBlock(text_lower, bare_year_pattern)

(***************************************************************************)
(* QueryBuilder: query assembler.  The query string is held by its parts:  *)
(* select_parts, metric_joins and where_parts are the lists the code       *)
(* joins into the SQL text, each f-string held as a record of the values   *)
(* it interpolates.                                                        *)
(***************************************************************************)
\* Python truthiness of an Optional[str] / Optional[int] / list
TruthyStr(o) == o # None /\ o[1] # ""
TruthyInt(o) == o # None /\ o[1] # 0

BaseSelect ==
    <<"u.user_id", "u.first_name", "u.last_name", "u.graduation_year",
      "u.avatar_uri", "l.city", "l.province", "l.country",
      "p.name as position_name", "s.name as sport_name",
      "(SELECT COUNT(*) FROM film f WHERE f.user_id = u.user_id AND f.visibility = 2) as film_count">>

\* LEFT JOIN metrics m_{alias} ON u.user_id = m_{alias}.user_id
\*     AND m_{alias}.title = '{title}' AND m_{alias}.is_current = 1
MetricJoin(alias, title) == [join_alias |-> alias, title |-> title]

\* f"m_{alias}.value as {alias}"
MetricSelect(alias) == "m_" \o alias \o ".value as " \o alias

\* the metric_joins / select_parts entries of "for mf in filters.metrics"
FilterJoins(metrics) ==
    [i \in 1..Len(metrics) |-> MetricJoin(metrics[i].alias, metrics[i].metric_name)]

\* "if not any(mf.alias == alias for mf in filters.metrics)"
NotFiltered(metrics, metric_name) ==
    ~\E i \in 1..Len(metrics) : metrics[i].alias = make_alias(metric_name)

\* the entries of "if include_metrics: for metric_name in include_metrics"
IncludeJoins(metrics, include_metrics) ==
    IF include_metrics = None \/ include_metrics[1] = <<>> THEN <<>>
    ELSE LET added == SelectSeq(include_metrics[1],
                                LAMBDA n : NotFiltered(metrics, n))
         IN  [i \in 1..Len(added) |-> MetricJoin(make_alias(added[i]), added[i])]

\* "if filters.verified_only: for mf in filters.metrics"
VerifiedParts(filters) ==
    IF filters.verified_only
    THEN [i \in 1..Len(filters.metrics) |->
            [kind |-> "verified", alias |-> filters.metrics[i].alias]]
    ELSE <<>>

\* every comparison on the alias of the first Filter
MetricParts_first_alias(filters) ==
    [i \in 1..Len(filters.metrics) |->
        [kind |-> "metric", alias |-> filters.metrics[1].alias,
         operator |-> filters.metrics[i].operator,
         threshold |-> filters.metrics[i].value]]

\* f"CAST(m_{mf.alias}.value AS DECIMAL(10,2)) {mf.operator} {mf.value}"
MetricParts(filters) ==
    [i \in 1..Len(filters.metrics) |->
        [kind |-> "metric", alias |-> filters.metrics[i].alias,
         operator |-> filters.metrics[i].operator,
         threshold |-> filters.metrics[i].value]]

WhereParts(filters) ==
    <<[kind |-> "base", sql |-> "u.type = 1"],
      [kind |-> "base", sql |-> "u.visibility = 2"]>>
    \o (IF TruthyStr(filters.state)
        THEN <<[kind |-> "state", province |-> filters.state[1]]>> ELSE <<>>)
    \o (IF TruthyInt(filters.graduation_year)
        THEN <<[kind |-> "graduation_year", year |-> filters.graduation_year[1]]>>
        ELSE <<>>)
    \o (IF TruthyInt(filters.sport_id)
        THEN <<[kind |-> "sport", sport_id |-> filters.sport_id[1]]>> ELSE <<>>)
    \o (IF filters.positions # <<>>
        THEN <<[kind |-> "position", position_ids |-> filters.positions]>>
        ELSE <<>>)
    \o MetricParts(filters)
    \o VerifiedParts(filters)

\* the direction taken from the first Filter's operator
OrderBy_by_operator(filters) ==
    IF filters.metrics # <<>>
    THEN LET first_metric == filters.metrics[1]
             direction == IF first_metric.operator \in {"<", "<="}
                          THEN "ASC" ELSE "DESC"
         IN  Some([alias |-> first_metric.alias, direction |-> direction])
    ELSE None

\* "ORDER BY CAST(m_{first_metric.alias}.value AS DECIMAL(10,2)) {direction}"
OrderBy(filters) ==
    IF filters.metrics # <<>>
    THEN LET first_metric == filters.metrics[1]
             direction == IF first_metric.metric_name \in LOWER_IS_BETTER
                          THEN "ASC" ELSE "DESC"
         IN  Some([alias |-> first_metric.alias, direction |-> direction])
    ELSE None

build_athlete_search_query(filters, include_metrics) ==
    LET joins == FilterJoins(filters.metrics)
                 \o IncludeJoins(filters.metrics, include_metrics)
    IN  [select_parts |-> BaseSelect
                          \o [i \in 1..Len(joins) |-> MetricSelect(joins[i].join_alias)],
         metric_joins |-> joins,
         where_parts  |-> WhereParts(filters),
         order_by     |-> OrderBy(filters),
         limit        |-> filters.limit]

\* every tuple kept, under the name given when it does not normalize
BuildMetrics_keep_unknown(metric_filters) ==
    IF metric_filters = None \/ metric_filters[1] = <<>> THEN <<>>
    ELSE [i \in 1..Len(metric_filters[1]) |->
            LET t == metric_filters[1][i]
                db_name == IF normalize_metric(t[1]) # None
                           THEN normalize_metric(t[1])[1] ELSE t[1]
            IN  MetricFilter(db_name, t[2], t[3], make_alias(db_name))]

\* "for metric_name, operator, value in metric_filters: ... if db_name:"
BuildMetrics(metric_filters) ==
    IF metric_filters = None \/ metric_filters[1] = <<>> THEN <<>>
    ELSE LET kept == SelectSeq(metric_filters[1],
                               LAMBDA t : normalize_metric(t[1]) # None)
         IN  [i \in 1..Len(kept) |->
                LET db_name == normalize_metric(kept[i][1])[1]
                IN  MetricFilter(db_name, kept[i][2], kept[i][3],
                                 make_alias(db_name))]

\* the SearchFilters build_search_query builds from its arguments; an
\* argument left out is None (limit: the default 10)
NormalizeRequest(r) ==
    SearchFilters(
        BuildMetrics(r.metric_filters),
        IF TruthyStr(r.position) THEN normalize_position(r.position[1]) ELSE <<>>,
        IF TruthyStr(r.state) THEN normalize_state(r.state[1]) ELSE None,
        r.graduation_year,
        IF TruthyStr(r.sport) THEN normalize_sport(r.sport[1]) ELSE None,
        IF r.limit = None THEN 10 ELSE r.limit[1],
        r.verified_only)

build_search_query(r) == build_athlete_search_query(NormalizeRequest(r), None)

\* the module globals the functions above read
StaticTables ==
    [METRIC_MAPPINGS   |-> METRIC_MAPPINGS,
     POSITION_MAPPINGS |-> POSITION_MAPPINGS,
     STATE_MAPPINGS    |-> STATE_MAPPINGS,
     SPORT_MAPPINGS    |-> SPORT_MAPPINGS,
     LOWER_IS_BETTER   |-> LOWER_IS_BETTER]

\* s[::-1]
Reversed(list) == [i \in 1..Len(list) |-> list[Len(list) + 1 - i]]

\* the position ids put in reverse order in the list given
filters_left_reversed(filters, include_metrics) ==
    [filters EXCEPT !.positions = Reversed(@)]

\* the SearchFilters as build_athlete_search_query leaves it: the loops
\* over filters.metrics and the join over filters.positions read it, and
\* every append is to the select_parts, metric_joins and where_parts the
\* call made itself
filters_left(filters, include_metrics) == filters

\* include_metrics as build_athlete_search_query leaves it: "for
\* metric_name in include_metrics" reads it
include_metrics_left(filters, include_metrics) == include_metrics

\* the static tables as build_search_query leaves them: position_ids is
\* the list POSITION_MAPPINGS holds for the position, not a copy, and it
\* is the positions of the SearchFilters given on
tables_left(static, r) ==
    LET position_lower == IF TruthyStr(r.position)
                          THEN Strip(Lower(r.position[1])) ELSE ""
    IN  IF TruthyStr(r.position) /\ position_lower \in DOMAIN static.POSITION_MAPPINGS
        THEN [static EXCEPT !.POSITION_MAPPINGS[position_lower] =
                 filters_left(NormalizeRequest(r), None).positions]
        ELSE static

(***************************************************************************)
(* nfl_benchmark_agent.py: percentile engine.  Values are held in          *)
(* hundredths (4.40 s is 440).                                             *)
(***************************************************************************)
\* the lower values counted whatever the direction
BetterCount_ignores_direction(value, values, lower_is_better) ==
    Cardinality({i \in 1..Len(values) : values[i] < value})

\* sum(1 for v in values if v > value) / sum(1 for v in values if v < value)
BetterCount(value, values, lower_is_better) ==
    Cardinality({i \in 1..Len(values) :
                    IF lower_is_better THEN values[i] > value
                                       ELSE values[i] < value})

Min2(a, b) == IF a < b THEN a ELSE b
Max2(a, b) == IF a > b THEN a ELSE b

\* int((better_count / len(values)) * 100) in IEEE double arithmetic.  The
\* quotient k / n is rounded to a double before it is multiplied, so where
\* 100 k / n is a whole number m the product can come out just below m and
\* int() truncates it to m - 1.  For 0 <= k <= n < 130 this happens for
\* exactly the four quotients listed (0.58, 0.29, 0.57, 0.58); everywhere
\* else in that range the result is the floor of 100 k / n.
InexactQuotients == {<<29, 50>>, <<29, 100>>, <<57, 100>>, <<58, 100>>}

FloatPercent(better_count, n) ==
    IF <<better_count, n>> \in InexactQuotients
    THEN (better_count * 100) \div n - 1
    ELSE (better_count * 100) \div n

calculate_percentile(value, values, lower_is_better) ==
    IF values = <<>> THEN 50
    ELSE LET better_count == BetterCount(value, values, lower_is_better)
             percentile   == FloatPercent(better_count, Len(values))
         IN  Min2(99, Max2(1, percentile))

\* abs(value - nfl_value) / nfl_value < tolerance in IEEE double arithmetic,
\* for values and tolerances in hundredths.  Where the exact relative
\* difference equals the tolerance, the rounded difference of the two doubles
\* can come out just below it; for values of two decimals from 4.00 to 4.99
\* this happens for exactly the listed <<lower_is_better, value, nfl_value>>
\* (e.g. abs(4.41 - 4.5) / 4.5 = 0.0199999999999998 < 0.02), and everywhere
\* else in that range the comparison agrees with the exact one.
InexactDifferences ==
    { <<TRUE, 441, 450>>, <<TRUE, 459, 450>>,
      <<FALSE, 441, 420>>, <<FALSE, 462, 440>>, <<FALSE, 437, 460>> }

Abs(x) == IF x < 0 THEN 0 - x ELSE x

Tolerance(lower_is_better) == IF lower_is_better THEN 2 ELSE 5

\* diff = abs(value - nfl_value) / nfl_value if nfl_value else 0;  diff < tolerance
DiffBelowTolerance(value, nfl_value, lower_is_better) ==
    IF nfl_value = 0 THEN TRUE
    ELSE \/ Abs(value - nfl_value) * 100 < Tolerance(lower_is_better) * nfl_value
         \/ <<lower_is_better, value, nfl_value>> \in InexactDifferences

\* the three fields of the f-string appended to a list: name, value, unit
Entry(name, nfl_value, unit) == [name |-> name, nfl_value |-> nfl_value, unit |-> unit]

\* the list an athlete is appended to: "skip" when it has no value
BucketOf(value, athlete, lower_is_better) ==
    IF athlete.value = None THEN "skip"
    ELSE LET nfl_value == athlete.value[1]
         IN  IF DiffBelowTolerance(value, nfl_value, lower_is_better)
             THEN "similar_to"
             ELSE IF lower_is_better
                  THEN (IF value < nfl_value THEN "better_than" ELSE "worse_than")
                  ELSE (IF value > nfl_value THEN "better_than" ELSE "worse_than")

EntryOf(athlete, bucket, lower_is_better) ==
    Entry(athlete.name, athlete.value[1],
          IF bucket = "similar_to" THEN ""
          ELSE IF lower_is_better THEN "s" ELSE "\"")

\* the list `bucket` after the loop over athletes[1..n]
RECURSIVE Appended(_, _, _, _, _)
Appended(value, athletes, n, lower_is_better, bucket) ==
    IF n = 0 THEN <<>>
    ELSE LET rest == Appended(value, athletes, n - 1, lower_is_better, bucket)
         IN  IF BucketOf(value, athletes[n], lower_is_better) = bucket
             THEN Append(rest, EntryOf(athletes[n], bucket, lower_is_better))
             ELSE rest

\* list[:limit] for limit >= 0
Slice(list, limit) == SubSeq(list, 1, Min2(limit, Len(list)))

find_player_comparisons(value, athletes, lower_is_better, limit) ==
    [ better_than |-> Slice(Appended(value, athletes, Len(athletes), lower_is_better, "better_than"), limit),
      similar_to  |-> Slice(Appended(value, athletes, Len(athletes), lower_is_better, "similar_to"), limit),
      worse_than  |-> Slice(Appended(value, athletes, Len(athletes), lower_is_better, "worse_than"), limit) ]

(***************************************************************************)
(* tools/recruiting_tools.py: analyze_profile.  The metrics table is held  *)
(* as the current value (a str) of each user and title, None where the     *)
(* user has no current row of that title.  The connection to the database  *)
(* is taken to succeed.                                                    *)
(***************************************************************************)
\* float(metric['value']) raises no ValueError, for values made of digits,
\* letters, "/" and "."
IsFloat(s) ==
    /\ \A i \in 1..Len(s) : CharAt(s, i) \in Digits \cup {"."}
    /\ \E i \in 1..Len(s) : CharAt(s, i) \in Digits
    /\ Cardinality({i \in 1..Len(s) : CharAt(s, i) = "."}) <= 1

\* value REGEXP '^[0-9]'
StartsWithDigit(s) == s # "" /\ Head(s) \in Digits

\* the users with a row WHERE title = %s AND is_current = 1
\* AND value REGEXP '^[0-9]'
NumericRows(db, title) ==
    {u \in DOMAIN db : db[u][title] # None /\ StartsWithDigit(db[u][title][1])}

\* if title in ['40 Yard Dash', '5-10-5 shuttle']
profile_lower_is_better(title) == title \in {"40 Yard Dash", "5-10-5 shuttle"}

\* SELECT COUNT(*) as worse ... AND CAST(value AS DECIMAL(10,2)) > %s, or < %s
WorseCount(db, title, athlete_val) ==
    Cardinality({u \in NumericRows(db, title) :
                    IF profile_lower_is_better(title)
                    THEN FloatOf(db[u][title][1]) > athlete_val
                    ELSE FloatOf(db[u][title][1]) < athlete_val})

\* round((worse_count / total) * 100) in IEEE double arithmetic: round half
\* to even of 100 k / n, but for the quotients listed, where the product
\* comes out just below a half (57.49999999999999 for 23 / 40).  For
\* 0 <= k <= n < 120 these are the only ones.
InexactHalves == {<<23, 40>>, <<46, 80>>}

RoundPercent(worse_count, total) ==
    LET whole == (worse_count * 100) \div total
        rest2 == 2 * ((worse_count * 100) % total)
    IN  IF <<worse_count, total>> \in InexactHalves THEN whole
        ELSE IF rest2 > total \/ (rest2 = total /\ whole % 2 = 1) THEN whole + 1
        ELSE whole

\* total = avg_row['total'] if avg_row['total'] else 1
\* percentile = round((worse_count / total) * 100)
ProfilePercentile(db, title, athlete_val) ==
    LET rows  == Cardinality(NumericRows(db, title))
        total == IF rows # 0 THEN rows ELSE 1
    IN  RoundPercent(WorseCount(db, title, athlete_val), total)

Rating(percentile) ==
    IF percentile >= 80 THEN "Elite"
    ELSE IF percentile >= 60 THEN "Above Average"
    ELSE IF percentile >= 40 THEN "Average"
    ELSE IF percentile >= 20 THEN "Below Average"
    ELSE "Needs Work"

\* the titles of the metrics table, in the order of ORDER BY title
ProfileTitles == <<"100 Meter Dash", "40 Yard Dash">>

\* the entry appended to analysis for one metric of the athlete; an entry
\* of a value that is no number has the key "comparison" and no percentile
ProfileEntry(db, title, value) ==
    IF ~IsFloat(value)
    THEN [metric |-> title, value |-> value, comparison |-> Some("N/A"),
          percentile |-> None, rating |-> None, total_athletes |-> None]
    ELSE LET rows       == Cardinality(NumericRows(db, title))
             percentile == ProfilePercentile(db, title, FloatOf(value))
         IN  [metric |-> title, value |-> value, comparison |-> None,
              percentile |-> Some(percentile), rating |-> Some(Rating(percentile)),
              total_athletes |-> Some(IF rows # 0 THEN rows ELSE 1)]

NoAnalysis ==
    [success |-> FALSE, error |-> "", metrics |-> <<>>, strengths |-> <<>>,
     weaknesses |-> <<>>, overall_rating |-> ""]

\* [a['metric'] for a in analysis if keep(a)]
MetricsWhere(entries, keep(_)) ==
    LET kept == SelectSeq(entries, keep)
    IN  [i \in 1..Len(kept) |-> kept[i].metric]

analyze_profile(db, user_id) ==
    LET titles  == SelectSeq(ProfileTitles, LAMBDA t : db[user_id][t] # None)
        entries == [i \in 1..Len(titles) |->
                       ProfileEntry(db, titles[i], db[user_id][titles[i]][1])]
        strengths  == MetricsWhere(entries,
                          LAMBDA a : a.percentile # None /\ a.percentile[1] >= 70)
        weaknesses == MetricsWhere(entries,
                          LAMBDA a : a.percentile # None /\ a.percentile[1] <= 30)
    IN  IF titles = <<>>
        THEN [NoAnalysis EXCEPT !.error = "No metrics found for this athlete"]
        ELSE [success |-> TRUE, error |-> "", metrics |-> entries,
              strengths |-> strengths, weaknesses |-> weaknesses,
              overall_rating |-> IF Len(strengths) > Len(weaknesses)
                                 THEN "Strong" ELSE "Developing"]

\* compare_to_nfl: metric_configs, by key
metric_configs ==
    ("forty"      :> [lower_is_better |-> TRUE,  display |-> "40-Yard Dash"])
    @@ ("vertical"   :> [lower_is_better |-> FALSE, display |-> "Vertical Jump"])
    @@ ("broad"      :> [lower_is_better |-> FALSE, display |-> "Broad Jump"])
    @@ ("shuttle"    :> [lower_is_better |-> TRUE,  display |-> "Shuttle"])
    @@ ("three_cone" :> [lower_is_better |-> TRUE,  display |-> "3-Cone Drill"])

(***************************************************************************)
(* Camp finders: scoring and ranking of events                             *)
(***************************************************************************)
\* str(n) of an integer n >= 0
RECURSIVE Str(_)
Str(n) ==
    IF n < 10 THEN CharAt("0123456789", n + 1)
    ELSE Str(n \div 10) \o CharAt("0123456789", (n % 10) + 1)

\* needle in haystack
Contains(haystack, needle) ==
    \E pos \in 1..(Len(haystack) + 1) : StartsWith(haystack, pos, needle)

\* date(year, month, day).toordinal()
IsLeap(year) == year % 4 = 0 /\ (year % 100 # 0 \/ year % 400 = 0)

DaysInMonth(year, month) ==
    IF month = 2 THEN (IF IsLeap(year) THEN 29 ELSE 28)
    ELSE IF month \in {4, 6, 9, 11} THEN 30 ELSE 31

RECURSIVE DaysBeforeMonth(_, _)
DaysBeforeMonth(year, month) ==
    IF month = 1 THEN 0
    ELSE DaysBeforeMonth(year, month - 1) + DaysInMonth(year, month - 1)

DaysBeforeYear(year) ==
    LET y == year - 1 IN y * 365 + y \div 4 - y \div 100 + y \div 400

Ordinal(year, month, day) ==
    DaysBeforeYear(year) + DaysBeforeMonth(year, month) + day

\* the regex strptime builds for '%Y-%m-%d':
\* (?P<Y>\d\d\d\d)-(?P<m>1[0-2]|0[1-9]|[1-9])-(?P<d>3[0-1]|[1-2]\d|0[1-9]|[1-9]| [1-9])
MonthDirective ==
    <<"10", "11", "12", "01", "02", "03", "04", "05", "06", "07", "08", "09",
      "1", "2", "3", "4", "5", "6", "7", "8", "9">>
DayDirective ==
    <<"30", "31", "10", "11", "12", "13", "14", "15", "16", "17", "18", "19",
      "20", "21", "22", "23", "24", "25", "26", "27", "28", "29", "01", "02",
      "03", "04", "05", "06", "07", "08", "09", "1", "2", "3", "4", "5",
      "6", "7", "8", "9", " 1", " 2", " 3", " 4", " 5", " 6", " 7", " 8",
      " 9">>
DateFormat ==
    <<Open(1), Cls(Digits), Cls(Digits), Cls(Digits), Cls(Digits), Close(1), Lit("-"),
      Open(2), Alt(MonthDirective), Close(2), Lit("-"),
      Open(3), Alt(DayDirective), Close(3)>>

\* datetime(year, month, day) or the ValueError of a day that does not exist
DateOrdinal(year, month, day) ==
    IF year < 1 \/ day > DaysInMonth(year, month) THEN None
    ELSE Some(Ordinal(year, month, day))

Converted(data_string, found) ==
    IF ~found.ok THEN None
    ELSE IF found.end # Len(data_string) + 1 THEN None
    ELSE DateOrdinal(IntOf(Group(data_string, found, 1)),
                     IntOf(Group(data_string, found, 2)),
                     IntOf(LStrip(Group(data_string, found, 3))))

\* datetime.strptime(data_string, '%Y-%m-%d') as the ordinal of the date;
\* None stands for the ValueError raised when the string does not match, when
\* unconverted data remains or when the day does not exist
strptime(data_string) ==
    Converted(data_string,
              Match(DateFormat, 1, data_string, 1, [g \in 1..3 |-> <<0, 0>>]))

\* a reading of datetime.now(): the ordinal of its date, and whether its time
\* of day is exactly 00:00:00.000000
Reading(day, midnight) == [day |-> day, midnight |-> midnight]

\* (event_date - datetime.now()).days: the floor of the difference in days
days_away(event_date, reading) ==
    event_date - reading.day - (IF reading.midnight THEN 0 ELSE 1)

\* what a rule does: the change of score and the reasons appended
Rule(delta, reasons) == [delta |-> delta, reasons |-> reasons]
NoRule == Rule(0, <<>>)

\* athlete.get('city', default)
CityOf(athlete, default) == IF athlete.city = None THEN default ELSE athlete.city[1]

\* the strings the camp finders lower-case and the dates they parse, each
\* converted once
Event(name, location, distance_miles, cost, date, verified, coaches, testing, agent_notes) ==
    [ name |-> name, location |-> location, distance_miles |-> distance_miles,
      cost |-> cost, date |-> date, verified |-> verified, coaches |-> coaches,
      testing |-> testing, agent_notes |-> agent_notes,
      fit_score |-> None, fit_reasons |-> None ]

EventInputs ==
    { Event("Houston SPARQ Combine", "Houston, TX", Some(15), Some(75),
            Some("2026-02-24"), TRUE, 2, TRUE, FALSE),
      Event("Dallas Elite Showcase", "Dallas, TX", Some(240), Some(150),
            Some("2026-02-24"), TRUE, 2, TRUE, FALSE),
      Event("Houston Open Tryout", "Houston, TX", None, Some(75),
            None, FALSE, 0, FALSE, FALSE),
      Event("Austin Spring Camp", "Austin, TX", Some(100), Some(350),
            Some("2026-03-05"), FALSE, 0, FALSE, TRUE),
      Event("Katy Speed Clinic", "Katy, TX", Some(30), None,
            Some("2026-05-21"), TRUE, 0, FALSE, FALSE),
      Event("Regional Combine", "TBD", Some(0), Some(0),
            Some("TBD"), FALSE, 0, FALSE, FALSE),
      [ Event("San Antonio Showcase", "San Antonio, TX", Some(200), Some(250),
              Some("2026-02-13"), FALSE, 1, FALSE, FALSE)
          EXCEPT !.fit_score = Some(999), !.fit_reasons = Some(<<"In your city">>) ] }

AthleteInputs == {[city |-> Some("Houston")], [city |-> None]}

\* web_research_tools: the list search_camps returns; coaches is the length
\* of the list of coaches, testing whether there is a list of tests
sample_events ==
    << Event("Houston SPARQ Combine", "Houston, TX", Some(15), Some(75),
             Some("2026-02-24"), TRUE, 2, TRUE, FALSE),
       Event("Dallas Elite Showcase", "Dallas, TX", Some(240), Some(150),
             Some("2026-03-05"), TRUE, 2, TRUE, FALSE),
       Event("Austin Spring Camp", "Austin, TX", Some(165), Some(200),
             Some("2026-03-15"), TRUE, 2, TRUE, FALSE) >>

\* 'sparq.com' in url or 'gmtm.com' in url, for each sample event
sample_known_platform == <<TRUE, FALSE, FALSE>>

\* verify_event_legitimacy(event)['legitimate']:
\* len(green_flags) / (len(green_flags) + len(red_flags)) > 0.6
legitimate(event, known_platform) ==
    LET high  == event.cost[1] > 300
        red   == IF high THEN 1 ELSE 0
        green == (IF high THEN 0 ELSE 1) + (IF event.verified THEN 1 ELSE 0)
                 + (IF known_platform THEN 1 ELSE 0)
    IN  10 * green > 6 * (green + red)

\* _search_web_camps: the events of search_camps that are legitimate
search_web_camps ==
    LET kept == SelectSeq([i \in 1..Len(sample_events) |-> i],
                          LAMBDA i : legitimate(sample_events[i], sample_known_platform[i]))
    IN  [i \in 1..Len(kept) |-> sample_events[kept[i]]]

\* _search_gmtm_events: the dict made of a row of in_person_events, which
\* has no distance_miles, coaches or testing, cost None and verified True
gmtm_event(name, date, location) ==
    Event(name, location, None, None, Some(date), TRUE, 0, FALSE, FALSE)

\* what the query of _search_gmtm_events can return
GmtmResults ==
    {<<>>, <<gmtm_event("Katy Speed Clinic", "2026-03-05", "Katy, TX")>>}

\* the objects of a list the call before left behind: search_camps gives
\* the dicts of its first call again
fresh_ids_cached(objects, events) ==
    [i \in 1..Len(events) |->
        IF \E j \in DOMAIN objects : objects[j].name = events[i].name
        THEN CHOOSE j \in DOMAIN objects :
                /\ objects[j].name = events[i].name
                /\ \A k \in DOMAIN objects : objects[k].name = events[i].name => j <= k
        ELSE Len(objects) + i]

\* the identities of the dicts a call creates: events.append({...}) and the
\* list literal of search_camps make new objects at every call
fresh_ids(objects, events) == [i \in 1..Len(events) |-> Len(objects) + i]

\* events on either side of every threshold of the distance, cost and
\* timing rules: one field varies, the others are those of a plain event
TierLocations == {"Houston, TX", "HOUSTON Sports Park", "Austin, TX"}
TierDistances == {None, Some(0), Some(49), Some(50), Some(149), Some(150)}
TierCosts == {None, Some(0), Some(99), Some(100), Some(199), Some(200), Some(300), Some(301)}
UnreadableDates == {"", "TBD", "02/24/2026", "2026-02-30"}
TierDates ==
    {"2026-02-03", "2026-02-16", "2026-02-17", "2026-02-23", "2026-02-24",
     "2026-03-27", "2026-03-28", "2026-05-11", "2026-05-12", "2026-3-5"}
    \cup UnreadableDates
PlainEvent(location, distance_miles, cost, date) ==
    Event("Camp", location, distance_miles, cost, date, FALSE, 0, FALSE, FALSE)
TierEvents ==
    {PlainEvent(l, d, None, None) : l \in TierLocations, d \in TierDistances}
    \cup {PlainEvent("Austin, TX", None, c, None) : c \in TierCosts}
    \cup {PlainEvent("Austin, TX", None, None, Some(d)) : d \in TierDates}
\* a list of one event, or of an event after one whose date cannot be read
TierLists ==
    {<<e>> : e \in TierEvents}
    \cup {<<PlainEvent("Austin, TX", None, None, Some(d)), e>> :
              d \in UnreadableDates, e \in TierEvents}

LowerTable ==
    [s \in {e.location : e \in EventInputs} \cup {"Houston", "Dallas", "", "Katy, TX"}
           \cup TierLocations
        |-> Lower(s)]
StrptimeTable ==
    [s \in {e.date[1] : e \in {x \in EventInputs : x.date # None}}
           \cup {sample_events[i].date[1] : i \in 1..Len(sample_events)}
           \cup TierDates
        |-> strptime(s)]

\* camp_finder_agent: distance scoring
agent_distance(event, athlete_city) ==
    IF Contains(LowerTable[event.location], LowerTable[athlete_city])
    THEN Rule(20, <<"In your city">>)
    ELSE IF TruthyInt(event.distance_miles)
    THEN IF event.distance_miles[1] < 50 THEN Rule(15, <<"Very close">>)
         ELSE IF event.distance_miles[1] < 150 THEN Rule(10, <<"Reasonable distance">>)
         ELSE Rule(0 - 10, <<"Far from home">>)
    ELSE NoRule

\* camp_finder_standalone: distance scoring
standalone_distance(event, athlete_city) ==
    IF Contains(LowerTable[event.location], athlete_city)
    THEN Rule(20, <<"In your city">>)
    ELSE IF TruthyInt(event.distance_miles)
    THEN IF event.distance_miles[1] < 50 THEN Rule(15, <<"Very close">>)
         ELSE IF event.distance_miles[1] < 150 THEN Rule(10, <<"Reasonable distance">>)
         ELSE Rule(0 - 5, <<Str(event.distance_miles[1]) \o " miles away">>)
    ELSE NoRule

\* autonomous_camp_finder: distance
camps_distance(camp, athlete_city) ==
    IF Contains(LowerTable[camp.location], athlete_city)
    THEN Rule(20, <<"In your city">>)
    ELSE NoRule

\* camp_finder_agent and camp_finder_standalone: cost scoring
events_cost(event) ==
    IF TruthyInt(event.cost)
    THEN IF event.cost[1] < 100 THEN Rule(15, <<"Affordable">>)
         ELSE IF event.cost[1] < 200 THEN Rule(5, <<>>)
         ELSE IF event.cost[1] > 300 THEN Rule(0 - 15, <<"Expensive">>)
         ELSE NoRule
    ELSE NoRule

\* autonomous_camp_finder: cost
camps_cost(camp) ==
    IF TruthyInt(camp.cost)
    THEN IF camp.cost[1] < 100 THEN Rule(15, <<"Affordable">>)
         ELSE IF camp.cost[1] > 300 THEN Rule(0 - 15, <<"Expensive">>)
         ELSE NoRule
    ELSE NoRule

\* the timing tiers with the penalty reaching one day further
agent_timing_tiers_week(days) ==
    IF 14 <= days /\ days <= 45 THEN Rule(15, <<"Good timing">>)
    ELSE IF days <= 7 THEN Rule(0 - 10, <<"Very soon - may be too late">>)
    ELSE IF days > 90 THEN Rule(0 - 5, <<"Far in future">>)
    ELSE NoRule

\* camp_finder_agent: the timing tiers
agent_timing_tiers(days) ==
    IF 14 <= days /\ days <= 45 THEN Rule(15, <<"Good timing">>)
    ELSE IF days < 7 THEN Rule(0 - 10, <<"Very soon - may be too late">>)
    ELSE IF days > 90 THEN Rule(0 - 5, <<"Far in future">>)
    ELSE NoRule

\* camp_finder_standalone: the timing tiers
standalone_timing_tiers(days) ==
    IF 14 <= days /\ days <= 45 THEN Rule(15, <<"Good timing">>)
    ELSE IF days < 7 THEN Rule(0 - 10, <<"Very soon">>)
    ELSE IF days > 90 THEN Rule(0 - 5, <<>>)
    ELSE NoRule

\* camp_finder_agent: timing scoring; a ValueError of strptime is swallowed
agent_timing(event, reading) ==
    IF TruthyStr(event.date)
    THEN IF StrptimeTable[event.date[1]] = None THEN NoRule
         ELSE agent_timing_tiers(days_away(StrptimeTable[event.date[1]][1], reading))
    ELSE NoRule

\* camp_finder_standalone: timing scoring
standalone_timing(event, reading) ==
    IF TruthyStr(event.date)
    THEN IF StrptimeTable[event.date[1]] = None THEN NoRule
         ELSE standalone_timing_tiers(days_away(StrptimeTable[event.date[1]][1], reading))
    ELSE NoRule

\* verification bonus
verified_bonus(event, reason) ==
    IF event.verified THEN Rule(10, <<reason>>) ELSE NoRule

\* coaches attending; event.coaches is the length of the list (0: no list)
agent_coaches(event) ==
    IF event.coaches # 0 THEN Rule(10, <<"College coaches attending">>) ELSE NoRule

standalone_coaches(event) ==
    IF event.coaches # 0 THEN Rule(10, <<Str(event.coaches) \o " coach groups">>)
    ELSE NoRule

\* testing/evaluation
agent_testing(event) ==
    IF event.testing THEN Rule(5, <<"Official testing">>) ELSE NoRule

\* agent recommendation
camps_agent_notes(camp) ==
    IF camp.agent_notes THEN Rule(5, <<"Agent recommended">>) ELSE NoRule

\* the rules of the loop body of CampFinderAgent._rank_events
\* (camp_finder_agent), in order
agent_rules(event, athlete, reading) ==
    << agent_distance(event, CityOf(athlete, "Houston")),
       events_cost(event),
       agent_timing(event, reading),
       verified_bonus(event, "Verified event"),
       agent_coaches(event),
       agent_testing(event) >>

\* the rules of the loop body of CampFinderAgent._rank_events
\* (camp_finder_standalone), in order
standalone_rules(event, athlete, reading) ==
    << standalone_distance(event, LowerTable[CityOf(athlete, "")]),
       events_cost(event),
       standalone_timing(event, reading),
       verified_bonus(event, "Verified event"),
       standalone_coaches(event) >>

\* the rules of the loop body of AutonomousCampFinder._rank_camps, in order
camps_rules(camp, athlete) ==
    << camps_distance(camp, LowerTable[CityOf(athlete, "")]),
       camps_cost(camp),
       verified_bonus(camp, "Verified by agent"),
       camps_agent_notes(camp) >>

RulesOf(ranker, event, athlete, reading) ==
    CASE ranker = "camp_finder_agent"      -> agent_rules(event, athlete, reading)
      [] ranker = "camp_finder_standalone" -> standalone_rules(event, athlete, reading)
      [] ranker = "autonomous_camp_finder" -> camps_rules(event, athlete)

\* score = 100 and reasons = [], then the rules in order
RECURSIVE SumOfDeltas(_, _)
SumOfDeltas(rules, n) ==
    IF n = 0 THEN 0 ELSE SumOfDeltas(rules, n - 1) + rules[n].delta

RECURSIVE AllReasons(_, _)
AllReasons(rules, n) ==
    IF n = 0 THEN <<>> ELSE AllReasons(rules, n - 1) \o rules[n].reasons

\* event['fit_score'] = score; event['fit_reasons'] = reasons
Scored(event, rules) ==
    [event EXCEPT !.fit_score = Some(100 + SumOfDeltas(rules, Len(rules))),
                  !.fit_reasons = Some(AllReasons(rules, Len(rules)))]

\* the position of the last occurrence of an object in the list
LastIndex(list, id) ==
    CHOOSE i \in 1..Len(list) :
        list[i] = id /\ \A j \in (i + 1)..Len(list) : list[j] # id

\* the loop `for event in events`: the objects of the list get their
\* fit_score and fit_reasons in place; readings[n] is what datetime.now()
\* returns while the n-th event of the list is scored
ScoredHeap(objects, list, ranker, athlete, readings) ==
    [id \in DOMAIN objects |->
        IF \E i \in 1..Len(list) : list[i] = id
        THEN Scored(objects[id],
                    RulesOf(ranker, objects[id], athlete, readings[LastIndex(list, id)]))
        ELSE objects[id]]

\* key=lambda x: x.get('fit_score', 0)
SortKey_ascending(objects, id) ==
    IF objects[id].fit_score = None THEN 0 ELSE 0 - objects[id].fit_score[1]

SortKey(objects, id) ==
    IF objects[id].fit_score = None THEN 0 ELSE objects[id].fit_score[1]

\* sorted(..., reverse=True) is stable: the element at j comes before the
\* element at i when its key is greater, or equal and j < i
ComesBefore_later_first(objects, list, j, i) ==
    \/ SortKey(objects, list[j]) > SortKey(objects, list[i])
    \/ SortKey(objects, list[j]) = SortKey(objects, list[i]) /\ j > i

ComesBefore(objects, list, j, i) ==
    \/ SortKey(objects, list[j]) > SortKey(objects, list[i])
    \/ SortKey(objects, list[j]) = SortKey(objects, list[i]) /\ j < i

SortedDesc(objects, list) ==
    [p \in 1..Len(list) |->
        list[CHOOSE i \in 1..Len(list) :
                Cardinality({j \in 1..Len(list) : ComesBefore(objects, list, j, i)}) = p - 1]]

(***************************************************************************)
(* Bounds and inputs                                                       *)
(***************************************************************************)
MaxPhrases == 2
MaxFilters == 2
MaxInclude == 2
MaxValues  == 4
MaxCalls   == 2
MaxAthletes == 3
MaxLimit   == 2
MaxEvents  == 2
MaxResults == 2
MaxRankings == 2
MaxDays    == 0

\* sequences over S of length at most n
SeqsUpTo(S, n) == UNION {[1..k -> S] : k \in 0..n}

\* one phrase: keyword, number, unit, metric token, suffix
Keywords == {"", "sub-", "sub ", "under ", "below ", "over ", "Above "}
Numbers  == {"4.5", "36", "4.40"}
Units    == {"", " ", " inch "}
Tokens   == {"40", "vertical", "shuttle", "bench", "broad", "gpa"}
Suffixes == {"", " or better"}
Phrases ==
    {k \o n \o u \o t \o x :
        k \in Keywords, n \in Numbers, u \in Units, t \in Tokens, x \in Suffixes}

\* the phrases that texts of several phrases are made of: one per shape
\* and token
CoreShapes ==
    {<<"sub-", "4.5", "">>, <<"under ", "5", "">>, <<"over ", "36", "">>,
     <<"", "4.40", " or better">>}
CoreTokens == {"40", "bench", "broad"}
CorePhrases == {c[1] \o c[2] \o " " \o t \o c[3] : c \in CoreShapes, t \in CoreTokens}

RECURSIVE JoinPhrases(_)
JoinPhrases(ps) ==
    IF ps = <<>> THEN ""
    ELSE IF Len(ps) = 1 THEN ps[1]
    ELSE ps[1] \o " " \o JoinPhrases(Tail(ps))

\* a keyword and a number with no metric token after the number
BareTexts == {"sub 4.40", "under 4.40", "4.40 or better", "sub 4.5", "over 36"}

Texts ==
    Phrases \cup {JoinPhrases(ps) : ps \in SeqsUpTo(CorePhrases, MaxPhrases)}
    \cup BareTexts

\* (metric_name, operator, value) tuples given to build_search_query
MetricTuples ==
    {<<"40", "<", 4500>>, <<" FORTY", ">=", 4000>>, <<"vertical", ">", 35000>>,
     <<"burpees", "<", 10000>>, <<"bench", "LIKE", 225000>>}

Requests ==
    [state           : {None, Some(" Texas"), Some("Narnia")},
     position        : {None, Some("QB"), Some("goalie")},
     graduation_year : {None, Some(2026), Some(0)},
     sport           : {None, Some("Football"), Some("quidditch")},
     metric_filters  : {None} \cup {Some(m) : m \in SeqsUpTo(MetricTuples, MaxFilters)},
     limit           : {None, Some(5)},
     verified_only   : BOOLEAN]

\* MetricFilters given to build_athlete_search_query directly
SampleFilters ==
    {MetricFilter("40 Yard Dash", "<", 4500, make_alias("40 Yard Dash")),
     MetricFilter("40 Yard Dash", ">=", 4000, make_alias("40 Yard Dash")),
     MetricFilter("Vertical Jump", ">", 35000, make_alias("Vertical Jump"))}

FilterInputs ==
    {SearchFilters(m, p, s, g, sp, 10, v) :
        m \in SeqsUpTo(SampleFilters, MaxFilters),
        p \in {<<>>, <<211, 240>>},
        s \in {None, Some("TX")},
        g \in {None, Some(2026)},
        sp \in {None, Some(1)},
        v \in BOOLEAN}

IncludeInputs ==
    {None} \cup {Some(m) : m \in SeqsUpTo({"Vertical Jump", "40 Yard Dash"}, MaxInclude)}

PopulationValues == {440, 450, 460}
SubjectValues == {435, 440, 445, 450, 455, 460, 465}

\* Larger populations: n members of which the first k hold one value and the
\* others a second one, for the sizes of the documented example (9) and of a
\* full position group (MaxPopulation).
MaxPopulation == 50
PopulationSizes == {9, MaxPopulation}
TwoLevel(k, n) == [i \in 1..n |-> IF i <= k THEN 440 ELSE 450]
\* the clock starts at midnight of 2026-02-10
Today == Ordinal(2026, 2, 10)

\* find_player_comparisons: athletes with or without a value for the metric
AthleteNames == {"A", "B"}
AthleteValues == {None, Some(440), Some(450)}
Athletes == {[name |-> n, value |-> v] : n \in AthleteNames, v \in AthleteValues}
ComparedValues == {430, 441, 445, 450, 462, 475}

Populations == UNION {{TwoLevel(k, n) : k \in 0..n} : n \in PopulationSizes}

(***************************************************************************)
(* The calls                                                               *)
(***************************************************************************)
NoQuery == [select_parts |-> <<>>, metric_joins |-> <<>>, where_parts |-> <<>>,
            order_by |-> None, limit |-> 0]
NoFilters == SearchFilters(<<>>, <<>>, None, None, None, 0, FALSE)
NoRequest == [state |-> None, position |-> None, graduation_year |-> None,
              sport |-> None, metric_filters |-> None, limit |-> None,
              verified_only |-> FALSE]

NoComparisons == [better_than |-> <<>>, similar_to |-> <<>>, worse_than |-> <<>>]

QueryIdle ==
    /\ arg_text = "" /\ parsed = None
    /\ request = NoRequest /\ arg_filters = NoFilters /\ arg_include_metrics = None
    /\ query = NoQuery

PercentileIdle == arg_values = <<>> /\ seen = {}

ComparisonIdle ==
    /\ arg_value = 0 /\ arg_athletes = <<>> /\ arg_limit = 0
    /\ comparisons = NoComparisons

CampIdle ==
    /\ arg_athlete = [city |-> None] /\ heap = <<>> /\ arg_events = <<>>
    /\ ranked = <<>> /\ arg_max_results = 0 /\ top_events = <<>>
    /\ now = Reading(0, TRUE) /\ history = <<>>

PureIdle == tables = StaticTables /\ calls = <<>>

ProfileIdle == arg_user_id = 0 /\ metrics_db = <<>> /\ analysis = NoAnalysis

NoReply == [rows |-> None, error |-> None]
NoPayload == [state |-> None, geography |-> None]
NoPrograms == [top_programs |-> <<>>, regional_programs |-> <<>>]
ApiIdle ==
    /\ arg_sql = "" /\ executed = <<>> /\ reply = NoReply
    /\ arg_payload = NoPayload /\ match_result = NoPrograms
    /\ college_targets = <<>> /\ colleges_matched = 0
ToolIdle == ProfileIdle /\ finders = <<>> /\ ApiIdle

LaterIdle == ComparisonIdle /\ CampIdle /\ PureIdle /\ ToolIdle

\* a session: calls of the query builder one after the other
MaxSession == 2
SessionTerms == {"QB", " texas", "40", "Football", "nothing"}
SessionTexts == {"sub 4.5 40", "fast"}
SessionYearTexts == {"Class of 2026 athletes", "nothing relevant"}
SessionRequests ==
    {[NoRequest EXCEPT !.position = Some("QB")],
     [NoRequest EXCEPT !.position = Some("goalie"), !.state = Some(" Texas")],
     [NoRequest EXCEPT !.position = Some("Quarterback "),
                       !.metric_filters = Some(<<<<"40", "<", 4500>>>>)],
     [NoRequest EXCEPT !.sport = Some("Football"), !.verified_only = TRUE,
                       !.metric_filters = Some(<<<<"vertical", ">", 35000>>>>)]}
SessionFilters ==
    {SearchFilters(<<>>, <<211, 240>>, Some("TX"), None, None, 10, FALSE),
     SearchFilters(<<MetricFilter("40 Yard Dash", "<", 4500, make_alias("40 Yard Dash"))>>,
                   <<>>, None, Some(2026), Some(1), 10, TRUE),
     SearchFilters(<<MetricFilter("Vertical Jump", ">", 35000, make_alias("Vertical Jump"))>>,
                   <<327, 302>>, None, None, None, 10, FALSE)}
SessionIncludes == {None, Some(<<"Vertical Jump", "40 Yard Dash">>)}

\* the metrics table given to analyze_profile
MaxUsers == 3
Users == 1..MaxUsers
MetricValues == {None, Some("4.4"), Some("11.2"), Some("N/A")}
TitleSet == {ProfileTitles[i] : i \in 1..Len(ProfileTitles)}
MetricsTables == [Users -> [TitleSet -> MetricValues]]

InitProfile ==
    /\ call = "analyze_profile" /\ pc = "called"
    /\ arg_user_id \in Users
    /\ metrics_db \in MetricsTables
    /\ analysis = NoAnalysis
    /\ QueryIdle /\ PercentileIdle /\ arg_lower_is_better = FALSE
    /\ ComparisonIdle /\ CampIdle /\ PureIdle /\ finders = <<>> /\ ApiIdle

\* two requests at the same time
Callers == {1, 2}
RequestAthletes == {[city |-> Some("Houston")], [city |-> Some("Dallas")]}

\* the locals of one find_camps_for_athlete call
Finder(athlete, at, all_events, done, camps) ==
    [athlete |-> athlete, pc |-> at, all_events |-> all_events, done |-> done,
     camps |-> camps]

InitRequests ==
    /\ call = "find_camps_for_athlete" /\ pc = "running"
    /\ finders \in [Callers -> {Finder(a, "called", <<>>, 0, <<>>) : a \in RequestAthletes}]
    /\ heap = <<>>
    /\ now = Reading(Today, FALSE)
    /\ arg_athlete = [city |-> None] /\ arg_events = <<>> /\ ranked = <<>>
    /\ arg_max_results = MaxResults /\ top_events = <<>> /\ history = <<>>
    /\ QueryIdle /\ PercentileIdle /\ arg_lower_is_better = FALSE
    /\ ComparisonIdle /\ PureIdle /\ ProfileIdle /\ ApiIdle

InitSession ==
    /\ call = "" /\ pc = "idle"
    /\ QueryIdle
    /\ arg_values = <<>> /\ arg_lower_is_better = FALSE /\ seen = {}
    /\ LaterIdle

\* terms given to the normalizers: keys of each table, pieces of keys and
\* other words, each in several letter cases and with whitespace around it
BaseTerms ==
    {"40", "40-yard dash", "forty", "vertical", "tx", "texas", "new york",
     "qb", "quarterback", "wr", "football", "basketball", "track",
     "fort", "tex", "quarter", "foot", "yard", "nothing", ""}

UpperOf ==
    [c \in LowerSet |->
        CharAt(UpperLetters, CHOOSE i \in 1..26 : CharAt(LowerLetters, i) = c)]

UpperChar(c) == IF c \in LowerSet THEN UpperOf[c] ELSE c

\* str.upper()
RECURSIVE Upper(_)
Upper(s) == IF s = "" THEN "" ELSE UpperChar(Head(s)) \o Upper(Tail(s))

\* str.capitalize()
Capitalize(s) == IF s = "" THEN "" ELSE UpperChar(Head(s)) \o Lower(Tail(s))

\* the strings that differ from s only in letter case or in the whitespace
\* around it
Variants(s) ==
    {s, Lower(s), Upper(s), Capitalize(s), " " \o s, s \o " ",
     "\t" \o Upper(s) \o " \n", Strip(s)}

TermInputs ==
    UNION {Variants(b) : b \in BaseTerms} \cup {"40-Yard Dash ", "FORTY"}

Normalizers ==
    {"normalize_metric", "normalize_position", "normalize_state", "normalize_sport"}

InitNormalize ==
    /\ call \in Normalizers /\ pc = "called"
    /\ arg_text \in TermInputs
    /\ parsed = None
    /\ request = NoRequest /\ arg_filters = NoFilters /\ arg_include_metrics = None
    /\ query = NoQuery
    /\ arg_values = <<>> /\ arg_lower_is_better = FALSE /\ seen = {}
    /\ LaterIdle

\* texts given to parse_graduation_year: a year between a lead and a tail,
\* and texts that several patterns match
YearLeads == {"", "Class of ", "class  of\t", "Graduating ", "grad ", "grads ", "classof "}
YearDigits == {"2026", "2031", "2023", "20267", "202"}
YearTails == {"", " athletes", " Class", " recruit", "s", " grads"}
YearTexts ==
    {l \o y \o t : l \in YearLeads, y \in YearDigits, t \in YearTails}
    \cup {"Class of 2026 athletes", "nothing relevant",
          "2025 athletes class of 2026", "grad 2027 class of 2026",
          "2028 recruits graduating 2027", "in 2025 for the 2031 class",
          "2030 or 2024", "12025", "2029 grad 2031"}

InitYear ==
    /\ call = "parse_graduation_year" /\ pc = "called"
    /\ arg_text \in YearTexts
    /\ parsed = None
    /\ request = NoRequest /\ arg_filters = NoFilters /\ arg_include_metrics = None
    /\ query = NoQuery
    /\ arg_values = <<>> /\ arg_lower_is_better = FALSE /\ seen = {}
    /\ LaterIdle

InitParse ==
    /\ call = "parse_metric_condition" /\ pc = "called"
    /\ arg_text \in Texts
    /\ parsed = None
    /\ request = NoRequest /\ arg_filters = NoFilters /\ arg_include_metrics = None
    /\ query = NoQuery
    /\ arg_values = <<>> /\ arg_lower_is_better = FALSE /\ seen = {}
    /\ LaterIdle

InitSearch ==
    /\ call = "build_search_query" /\ pc = "called"
    /\ request \in Requests
    /\ arg_filters = NoFilters /\ arg_include_metrics = None /\ query = NoQuery
    /\ arg_text = "" /\ parsed = None
    /\ arg_values = <<>> /\ arg_lower_is_better = FALSE /\ seen = {}
    /\ LaterIdle

InitAthleteSearch ==
    /\ call = "build_athlete_search_query" /\ pc = "called"
    /\ arg_filters \in FilterInputs
    /\ arg_include_metrics \in IncludeInputs
    /\ request = NoRequest /\ query = NoQuery
    /\ arg_text = "" /\ parsed = None
    /\ arg_values = <<>> /\ arg_lower_is_better = FALSE /\ seen = {}
    /\ LaterIdle

InitPercentile ==
    /\ call = "calculate_percentile" /\ pc = "called"
    /\ arg_values \in SeqsUpTo(PopulationValues, MaxValues)
    /\ arg_lower_is_better \in BOOLEAN
    /\ seen = {}
    /\ request = NoRequest /\ arg_filters = NoFilters /\ arg_include_metrics = None
    /\ query = NoQuery
    /\ arg_text = "" /\ parsed = None
    /\ LaterIdle

\* QueryBuilder().parse_metric_condition(text)
ParseMetricCondition ==
    /\ call = "parse_metric_condition" /\ pc = "called"
    /\ parsed' = parse_metric_condition(arg_text)
    /\ pc' = "returned"
    /\ UNCHANGED <<call, arg_text, request, arg_filters, arg_include_metrics, query,
                   arg_values, arg_lower_is_better, seen,
                   latervars>>

\* QueryBuilder().parse_graduation_year(text)
ParseGraduationYear ==
    /\ call = "parse_graduation_year" /\ pc = "called"
    /\ parsed' = parse_graduation_year(arg_text)
    /\ pc' = "returned"
    /\ UNCHANGED <<call, arg_text, request, arg_filters, arg_include_metrics, query,
                   arg_values, arg_lower_is_better, seen,
                   latervars>>

\* RecruitingTools().analyze_profile(athlete)
AnalyzeProfile ==
    /\ call = "analyze_profile" /\ pc = "called"
    /\ analysis' = analyze_profile(metrics_db, arg_user_id)
    /\ pc' = "returned"
    /\ UNCHANGED <<call, arg_user_id, metrics_db, queryvars, benchvars, campvars,
                   purevars, finders, apivars>>

\* a step of one of the concurrent calls
FinderStep(p, finder, objects) ==
    /\ finders' = [finders EXCEPT ![p] = finder]
    /\ heap' = objects
    /\ UNCHANGED <<call, pc, arg_athlete, arg_events, ranked, arg_max_results,
                   top_events, now, history, queryvars, benchvars, purevars,
                   profilevars, apivars>>

\* find_camps_for_athlete, steps 2 to 4: gmtm_events, web_events and
\* all_events = gmtm_events + web_events
SearchEvents ==
    \E p \in Callers, gmtm_events \in GmtmResults :
        /\ finders[p].pc = "called"
        /\ LET web_events == search_web_camps
                gmtm_ids   == fresh_ids(heap, gmtm_events)
                web_ids    == fresh_ids(heap \o gmtm_events, web_events)
            IN  FinderStep(p, [finders[p] EXCEPT !.pc = "ranking",
                                                 !.all_events = gmtm_ids \o web_ids],
                           heap \o gmtm_events \o web_events)

\* _rank_events: one turn of "for event in events"
ScoreEvent ==
    \E p \in Callers :
        /\ finders[p].pc = "ranking"
        /\ finders[p].done < Len(finders[p].all_events)
        /\ LET id == finders[p].all_events[finders[p].done + 1]
            IN  FinderStep(p, [finders[p] EXCEPT !.done = @ + 1],
                           [heap EXCEPT ![id] =
                               Scored(heap[id],
                                      agent_rules(heap[id], finders[p].athlete, now))])

\* _rank_events returns sorted(events, ...), find_camps_for_athlete returns
\* ranked_events[:max_results]
ReturnCamps ==
    \E p \in Callers :
        /\ finders[p].pc = "ranking"
        /\ finders[p].done = Len(finders[p].all_events)
        /\ FinderStep(p, [finders[p] EXCEPT
                             !.pc = "returned",
                             !.camps = Slice(SortedDesc(heap, finders[p].all_events),
                                             arg_max_results)],
                       heap)

\* the record of one call: what it was given, as the caller finds it
\* after the call, and what the call returned
Called(f, given, left, returned) ==
    [f |-> f, given |-> given, left |-> left, returned |-> returned]

\* one more call of the session; the normalizers and the parsers take a
\* str, which no call can change
SessionCall(f, entry) ==
    /\ Len(calls) < MaxSession
    /\ call' = f /\ pc' = "returned"
    /\ calls' = Append(calls, entry)
    /\ UNCHANGED <<arg_values, arg_lower_is_better, seen, cmpvars, campvars, toolvars>>

\* normalize_metric, normalize_position, normalize_state, normalize_sport in
\* a session
SessionNormalize ==
    \E f \in Normalizers, t \in SessionTerms :
        LET result == CASE f = "normalize_metric"   -> normalize_metric(t)
                        [] f = "normalize_position" -> normalize_position(t)
                        [] f = "normalize_state"    -> normalize_state(t)
                        [] f = "normalize_sport"    -> normalize_sport(t)
        IN  /\ SessionCall(f, Called(f, t, t, result))
            /\ arg_text' = t /\ parsed' = result
            /\ UNCHANGED <<request, arg_filters, arg_include_metrics, query, tables>>

\* parse_metric_condition in a session
SessionParseMetricCondition ==
    \E t \in SessionTexts :
        /\ SessionCall("parse_metric_condition",
                       Called("parse_metric_condition", t, t, parse_metric_condition(t)))
        /\ arg_text' = t /\ parsed' = parse_metric_condition(t)
        /\ UNCHANGED <<request, arg_filters, arg_include_metrics, query, tables>>

\* parse_graduation_year in a session
SessionParseGraduationYear ==
    \E t \in SessionYearTexts :
        /\ SessionCall("parse_graduation_year",
                       Called("parse_graduation_year", t, t, parse_graduation_year(t)))
        /\ arg_text' = t /\ parsed' = parse_graduation_year(t)
        /\ UNCHANGED <<request, arg_filters, arg_include_metrics, query, tables>>

\* build_search_query in a session: its arguments are str, int, bool and a
\* list of tuples it only iterates
SessionBuildSearchQuery ==
    \E r \in SessionRequests :
        /\ SessionCall("build_search_query",
                       Called("build_search_query", r, r, build_search_query(r)))
        /\ request' = r
        /\ arg_filters' = filters_left(NormalizeRequest(r), None)
        /\ arg_include_metrics' = None
        /\ query' = build_search_query(r)
        /\ tables' = tables_left(tables, r)
        /\ UNCHANGED <<arg_text, parsed>>

\* build_athlete_search_query in a session
SessionBuildAthleteSearchQuery ==
    \E filters \in SessionFilters, include_metrics \in SessionIncludes :
        /\ SessionCall("build_athlete_search_query",
                       Called("build_athlete_search_query",
                              <<filters, include_metrics>>,
                              <<filters_left(filters, include_metrics),
                                include_metrics_left(filters, include_metrics)>>,
                              build_athlete_search_query(filters, include_metrics)))
        /\ arg_filters' = filters_left(filters, include_metrics)
        /\ arg_include_metrics' = include_metrics_left(filters, include_metrics)
        /\ query' = build_athlete_search_query(filters, include_metrics)
        /\ UNCHANGED <<arg_text, parsed, request, tables>>

\* a call of one normalizer: what it returns is held in parsed
Normalize(f, result) ==
    /\ call = f /\ pc = "called"
    /\ parsed' = result
    /\ pc' = "returned"
    /\ UNCHANGED <<call, arg_text, request, arg_filters, arg_include_metrics, query,
                   arg_values, arg_lower_is_better, seen,
                   latervars>>

\* QueryBuilder().normalize_metric(metric)
NormalizeMetric == Normalize("normalize_metric", normalize_metric(arg_text))

\* QueryBuilder().normalize_position(position)
NormalizePosition == Normalize("normalize_position", normalize_position(arg_text))

\* QueryBuilder().normalize_state(state)
NormalizeState == Normalize("normalize_state", normalize_state(arg_text))

\* QueryBuilder().normalize_sport(sport)
NormalizeSport == Normalize("normalize_sport", normalize_sport(arg_text))

\* build_search_query(**request): normalizes, builds the SearchFilters and
\* returns builder.build_athlete_search_query(filters)
BuildSearchQuery ==
    /\ call = "build_search_query" /\ pc = "called"
    /\ arg_filters' = NormalizeRequest(request)
    /\ arg_include_metrics' = None
    /\ query' = build_search_query(request)
    /\ pc' = "returned"
    /\ UNCHANGED <<call, arg_text, parsed, request, arg_values, arg_lower_is_better, seen,
                   latervars>>

\* QueryBuilder().build_athlete_search_query(filters, include_metrics)
BuildAthleteSearchQuery ==
    /\ call = "build_athlete_search_query" /\ pc = "called"
    /\ query' = build_athlete_search_query(arg_filters, arg_include_metrics)
    /\ pc' = "returned"
    /\ UNCHANGED <<call, arg_text, parsed, request, arg_filters, arg_include_metrics,
                   arg_values, arg_lower_is_better, seen,
                   latervars>>

\* calculate_percentile(value, values, lower_is_better), for one more value
CalculatePercentile ==
    /\ call = "calculate_percentile"
    /\ Cardinality(seen) < MaxCalls
    /\ \E value \in SubjectValues :
          seen' = seen \cup {<<value, calculate_percentile(value, arg_values,
                                                       arg_lower_is_better)>>}
    /\ pc' = "returned"
    /\ UNCHANGED <<call, arg_text, parsed, request, arg_filters, arg_include_metrics, query,
                   arg_values, arg_lower_is_better,
                   latervars>>

InitComparisons ==
    /\ call = "find_player_comparisons" /\ pc = "called"
    /\ arg_value \in ComparedValues
    /\ arg_athletes \in SeqsUpTo(Athletes, MaxAthletes)
    /\ arg_lower_is_better \in BOOLEAN
    /\ arg_limit \in 0..MaxLimit
    /\ comparisons = NoComparisons
    /\ QueryIdle /\ PercentileIdle /\ CampIdle /\ PureIdle /\ ToolIdle

\* find_player_comparisons(value, athletes, metric_key, lower_is_better, limit)
FindPlayerComparisons ==
    /\ call = "find_player_comparisons" /\ pc = "called"
    /\ comparisons' = find_player_comparisons(arg_value, arg_athletes,
                                               arg_lower_is_better, arg_limit)
    /\ pc' = "returned"
    /\ UNCHANGED <<call, arg_text, parsed, request, arg_filters, arg_include_metrics, query,
                   arg_values, arg_lower_is_better, seen,
                   arg_value, arg_athletes, arg_limit, campvars, purevars, toolvars>>

RankerCalls ==
    { "camp_finder_agent._rank_events", "camp_finder_standalone._rank_events",
      "autonomous_camp_finder._rank_camps" }

InitCamps ==
    /\ \/ call \in RankerCalls /\ arg_max_results = 0
       \/ call = "find_camps_for_athlete" /\ arg_max_results \in 0..MaxResults
    /\ pc = "called"
    /\ arg_athlete \in AthleteInputs
    /\ heap \in SeqsUpTo(EventInputs, MaxEvents)
    /\ arg_events = [i \in 1..Len(heap) |-> i]
    /\ ranked = <<>> /\ top_events = <<>>
    /\ now = Reading(Today, TRUE)
    /\ history = <<>>
    /\ QueryIdle /\ PercentileIdle /\ arg_lower_is_better = FALSE /\ ComparisonIdle
    /\ PureIdle /\ ToolIdle

InitTiers ==
    /\ call \in RankerCalls /\ arg_max_results = 0
    /\ pc = "called"
    /\ arg_athlete \in AthleteInputs
    /\ heap \in TierLists
    /\ arg_events = [i \in 1..Len(heap) |-> i]
    /\ ranked = <<>> /\ top_events = <<>>
    /\ now = Reading(Today, TRUE)
    /\ history = <<>>
    /\ QueryIdle /\ PercentileIdle /\ arg_lower_is_better = FALSE /\ ComparisonIdle
    /\ PureIdle /\ ToolIdle

\* the readings datetime.now() can return after `reading`
Later(reading) ==
    IF reading.midnight THEN {Reading(reading.day, FALSE)}
    ELSE IF reading.day < Today + MaxDays
         THEN {Reading(reading.day + 1, TRUE), Reading(reading.day + 1, FALSE)}
         ELSE {}

\* one call of a ranker: the loop scores the events of the list in place,
\* reading the clock once per event (the clock may advance between two
\* events; _rank_camps does not read it), and the sorted list is returned
Rank(ranker, max_results) ==
    \E cut \in (IF ranker = "autonomous_camp_finder"
                THEN {Len(arg_events)} ELSE 0..Len(arg_events)) :
      \E later \in (IF cut = Len(arg_events) THEN {now} ELSE Later(now)) :
        /\ heap' = ScoredHeap(heap, arg_events, ranker, arg_athlete,
                              [i \in 1..Len(arg_events) |-> IF i <= cut THEN now ELSE later])
        /\ ranked' = SortedDesc(heap', arg_events)
        /\ top_events' = Slice(ranked', max_results)
        /\ now' = later
        /\ history' = Append(history,
               [ readings |-> {r \in {now, later} :
                                 \/ r = now /\ cut > 0
                                 \/ r = later /\ cut < Len(arg_events)},
                 ranked   |-> ranked',
                 scores   |-> [i \in 1..Len(ranked') |->
                                 [ fit_score   |-> heap'[ranked'[i]].fit_score[1],
                                   fit_reasons |-> heap'[ranked'[i]].fit_reasons[1] ]] ])
        /\ pc' = "returned"
        /\ UNCHANGED <<call, arg_athlete, arg_events, arg_max_results,
                       queryvars, benchvars, purevars, toolvars>>

\* camp_finder_agent: CampFinderAgent()._rank_events(events, athlete)
RankEvents ==
    /\ call = "camp_finder_agent._rank_events" /\ pc = "called"
    /\ Rank("camp_finder_agent", 0)

\* camp_finder_standalone: CampFinderAgent()._rank_events(events, athlete)
RankEventsStandalone ==
    /\ call = "camp_finder_standalone._rank_events" /\ pc = "called"
    /\ Rank("camp_finder_standalone", 0)

\* AutonomousCampFinder()._rank_camps(camps, athlete)
RankCamps ==
    /\ call = "autonomous_camp_finder._rank_camps" /\ pc = "called"
    /\ Rank("autonomous_camp_finder", 0)

\* camp_finder_agent: find_camps_for_athlete(athlete_id, max_results), from
\* all_events on: ranked_events = self._rank_events(all_events, athlete);
\* top_events = ranked_events[:max_results]
FindCampsForAthlete ==
    /\ call = "find_camps_for_athlete" /\ pc = "called"
    /\ Rank("camp_finder_agent", arg_max_results)

\* the ranker is called again, on the list it returned
RankAgain ==
    /\ call \in RankerCalls /\ pc = "returned"
    /\ Len(history) < MaxRankings
    /\ arg_events' = ranked
    /\ pc' = "called"
    /\ UNCHANGED <<call, arg_athlete, heap, ranked, arg_max_results, top_events, now,
                   history, queryvars, benchvars, purevars, toolvars>>

\* time passes between two calls
Advance ==
    /\ call \in RankerCalls /\ pc = "returned"
    /\ Len(history) < MaxRankings
    /\ now' \in Later(now)
    /\ UNCHANGED <<call, pc, arg_athlete, heap, arg_events, ranked, arg_max_results,
                   top_events, history, queryvars, benchvars, purevars, toolvars>>

\* the query construction calls
Init == InitSearch \/ InitAthleteSearch
Next == BuildSearchQuery \/ BuildAthleteSearchQuery
Spec == Init /\ [][Next]_vars

\* the term normalizer
NextNormalize ==
    NormalizeMetric \/ NormalizePosition \/ NormalizeState \/ NormalizeSport
SpecNormalize == InitNormalize /\ [][NextNormalize]_vars

\* the rankers on the thresholds of their rules
NextTiers == RankEvents \/ RankEventsStandalone \/ RankCamps
SpecTiers == InitTiers /\ [][NextTiers]_vars

\* concurrent requests for camps
NextRequests == SearchEvents \/ ScoreEvent \/ ReturnCamps
SpecRequests == InitRequests /\ [][NextRequests]_vars

\* the profile analysis
NextProfile == AnalyzeProfile
SpecProfile == InitProfile /\ [][NextProfile]_vars

\* sessions of the query builder
NextSession ==
    \/ SessionNormalize \/ SessionParseMetricCondition \/ SessionParseGraduationYear
    \/ SessionBuildSearchQuery \/ SessionBuildAthleteSearchQuery
SpecSession == InitSession /\ [][NextSession]_vars

\* the graduation year parser
NextYear == ParseGraduationYear
SpecYear == InitYear /\ [][NextYear]_vars

\* the filter parser
NextParse == ParseMetricCondition
SpecParse == InitParse /\ [][NextParse]_vars

InitPopulation ==
    /\ call = "calculate_percentile" /\ pc = "called"
    /\ arg_values \in Populations
    /\ arg_lower_is_better \in BOOLEAN
    /\ seen = {}
    /\ request = NoRequest /\ arg_filters = NoFilters /\ arg_include_metrics = None
    /\ query = NoQuery
    /\ arg_text = "" /\ parsed = None
    /\ LaterIdle

\* the percentile engine
NextPercentile == CalculatePercentile
SpecPercentile == (InitPercentile \/ InitPopulation) /\ [][NextPercentile]_vars

\* every entry point that produces a MetricFilter
\* the player comparisons
NextComparisons == FindPlayerComparisons
SpecComparisons == InitComparisons /\ [][NextComparisons]_vars

\* the camp finders
NextCamps ==
    \/ RankEvents \/ RankEventsStandalone \/ RankCamps \/ FindCampsForAthlete
    \/ RankAgain \/ Advance
SpecCamps == InitCamps /\ [][NextCamps]_vars

InitFilters == InitParse \/ InitSearch
NextFilters == ParseMetricCondition \/ BuildSearchQuery
SpecFilters == InitFilters /\ [][NextFilters]_vars

(***************************************************************************)
(* backend/agent_api.py: _run_read_only_query.  The GMTM database is held  *)
(* by the statements sent to it and by what it answers: the connection or  *)
(* the statement may fail, or a cursor over some number of rows comes back *)
(* (a row is held by its number).                                          *)
(***************************************************************************)
FORBIDDEN_SQL ==
    <<"INSERT", "UPDATE", "DELETE", "DROP", "ALTER", "CREATE", "TRUNCATE", "REPLACE",
      "GRANT", "REVOKE">>

\* sql_upper.startswith(keyword) or f" {keyword} " in sql_upper
Blocks(keyword, sql_upper) ==
    StartsWith(sql_upper, 1, keyword) \/ Contains(sql_upper, " " \o keyword \o " ")

\* the keyword the loop returns on: the first of the list that blocks
BlockingKeyword(sql_upper) ==
    LET blocking == {k \in 1..Len(FORBIDDEN_SQL) : Blocks(FORBIDDEN_SQL[k], sql_upper)}
    IN  IF blocking = {} THEN None
        ELSE Some(FORBIDDEN_SQL[CHOOSE k \in blocking : \A j \in blocking : k <= j])

\* the error the checks in front of the database give, None when they pass
Refusal(sql) ==
    LET sql_upper == Upper(Strip(sql))
        keyword   == BlockingKeyword(sql_upper)
    IN  IF keyword # None
        THEN Some("GMTM database is READ-ONLY. " \o keyword[1]
                      \o " operations are not permitted.")
        ELSE IF ~StartsWith(sql_upper, 1, "SELECT")
        THEN Some("Only SELECT queries are allowed.")
        ELSE None

\* c.fetchmany(50)
FetchLimit == 50
fetchmany(available) == [n \in 1..Min2(FetchLimit, available) |-> n]

\* {"rows": rows, "count": len(rows)} and {"error": message}
Rows(rows) == [rows |-> Some(rows), error |-> None]
Error(message) == [rows |-> None, error |-> Some(message)]

MaxRows == 52
SqlInputs ==
    {"SELECT 1", " select name from users \n", "SELECT created_at FROM users",
     "SELECTED", "", "SHOW TABLES", "DROP TABLE users", "  drop table users",
     "UPDATE users SET a = 1", "SELECT 1; DROP TABLE users",
     "SELECT 1;DROP TABLE users", "SELECT 1\nDELETE FROM users",
     "select 1;\tupdate users set a = 1", "SELECT 1; TRUNCATE users; DROP",
     "WITH t AS (SELECT 1) SELECT 1", "SELECT ' INSERT '"}
RefusalTable == [sql \in SqlInputs |-> Refusal(sql)]

InitQuery ==
    /\ call = "_run_read_only_query" /\ pc = "called"
    /\ arg_sql \in SqlInputs
    /\ executed = <<>> /\ reply = NoReply
    /\ arg_payload = NoPayload /\ match_result = NoPrograms
    /\ college_targets = <<>> /\ colleges_matched = 0
    /\ QueryIdle /\ PercentileIdle /\ arg_lower_is_better = FALSE
    /\ ComparisonIdle /\ CampIdle /\ PureIdle /\ ProfileIdle /\ finders = <<>>

QueryStep(sent, answer) ==
    /\ executed' = sent
    /\ reply' = answer
    /\ pc' = "returned"
    /\ UNCHANGED <<call, arg_sql, arg_payload, match_result, college_targets,
                   colleges_matched, queryvars, benchvars, campvars, purevars,
                   profilevars, finders>>

\* a check refuses the statement: the error is returned, no connection made
RefuseQuery ==
    /\ call = "_run_read_only_query" /\ pc = "called"
    /\ RefusalTable[arg_sql] # None
    /\ QueryStep(executed, Error(RefusalTable[arg_sql][1]))

\* the checks pass and _get_gmtm_db() raises
ConnectFails ==
    /\ call = "_run_read_only_query" /\ pc = "called"
    /\ RefusalTable[arg_sql] = None
    /\ QueryStep(executed, Error("connection failed"))

\* the checks pass and c.execute(sql) raises
ExecuteFails ==
    /\ call = "_run_read_only_query" /\ pc = "called"
    /\ RefusalTable[arg_sql] = None
    /\ QueryStep(Append(executed, arg_sql), Error("statement failed"))

\* the checks pass and the statement gives a cursor over `available` rows
FetchRows ==
    /\ call = "_run_read_only_query" /\ pc = "called"
    /\ RefusalTable[arg_sql] = None
    /\ \E available \in 0..MaxRows :
           QueryStep(Append(executed, arg_sql), Rows(fetchmany(available)))

NextQuery == RefuseQuery \/ ConnectFails \/ ExecuteFails \/ FetchRows
SpecQuery == InitQuery /\ [][NextQuery]_vars

(***************************************************************************)
(* backend/profile_api.py: create_from_onboarding, the college matching.   *)
(* What match_programs returned is given: two lists of programs, each in   *)
(* descending order of offers as its ORDER BY gives them; a name that is   *)
(* NULL in the database is None.                                           *)
(***************************************************************************)
Program(name, state, offers_given) ==
    [name |-> name, state |-> state, offers_given |-> offers_given]

\* the names of the organizations, as the database holds them
Roster ==
    <<"Alabama", "Auburn", "Baylor", "Clemson", "Duke", "Florida", "Georgia",
      "Houston", "Iowa", "Kansas", "LSU", "Miami", "Navy", "Ohio State">>
RegionalRoster ==
    <<Program(Some(" alabama "), Some("TX"), 50), Program(Some("HOUSTON"), Some("TX"), 20),
      Program(Some("Rice"), Some("TX"), 19), Program(Some("Texas Tech"), Some("TX"), 3),
      Program(None, Some("TX"), 0)>>

\* key = program["name"].strip().lower(), each name converted once
ProgramKey ==
    [name \in {Roster[i] : i \in 1..Len(Roster)}
              \cup {RegionalRoster[i].name[1] :
                       i \in {j \in 1..Len(RegionalRoster) : RegionalRoster[j].name # None}}
        |-> Lower(Strip(name))]

\* the loop over top_programs + regional_programs: a program is kept when
\* no program before it has its key
Unique(list) ==
    LET kept == {i \in 1..Len(list) :
                    \A j \in 1..(i - 1) :
                        ProgramKey[list[j].name[1]] # ProgramKey[list[i].name[1]]}
    IN  [k \in 1..Cardinality(kept) |->
            list[CHOOSE i \in kept : Cardinality({j \in kept : j < i}) = k - 1]]

\* prefs["region"]: set when geography is "In-state" and state is truthy
Region(payload) ==
    IF payload.geography = Some("In-state") /\ TruthyStr(payload.state)
    THEN payload.state ELSE None

\* the bonus of the place in the list, the later the smaller
position_bonus_rising(i) == Min2(i, 10)
\* max(0, 10 - i)
position_bonus(i) == Max2(0, 10 - i)

\* the fit_score of the i-th program, i from 0
fit_score_of(i, program, payload) ==
    Min2(70 + position_bonus(i)
            + (IF program.offers_given >= 50 THEN 5
               ELSE IF program.offers_given >= 20 THEN 3 ELSE 1)
            + (IF Region(payload) # None /\ program.state = payload.state THEN 5 ELSE 0),
         95)

\* "D1" if offer_count >= 15 else ("D2" if offer_count >= 5 else "D3")
division_of(offer_count) ==
    IF offer_count >= 15 THEN "D1" ELSE IF offer_count >= 5 THEN "D2" ELSE "D3"

\* the reasons stored with the row
fit_reasons_of(program, payload) ==
    (IF program.offers_given > 10
     THEN <<"Actively recruits your position (" \o Str(program.offers_given)
               \o " offers given)">>
     ELSE <<>>)
    \o (IF program.state = payload.state THEN <<"In-state program">> ELSE <<>>)

\* the row inserted into college_targets
Target(i, program, payload) ==
    [college_name  |-> program.name[1],
     college_state |-> program.state,
     division      |-> division_of(program.offers_given),
     fit_score     |-> fit_score_of(i, program, payload),
     fit_reasons   |-> fit_reasons_of(program, payload)]

\* the rows the handler stores: None when program["name"].strip() raises
\* on a name that is None, which the except clause swallows before any
\* row is written
matched_targets(result, payload) ==
    LET all == result.top_programs \o result.regional_programs
    IN  IF \E i \in 1..Len(all) : all[i].name = None THEN None
        ELSE LET programs == Slice(Unique(all), 12)
             IN  Some([n \in 1..Len(programs) |-> Target(n - 1, programs[n], payload)])

MaxPrograms == 13
\* the first n organizations, the first `many` with 50 offers, those after
\* them up to the `some`-th with 20, the rest with 19; every `every`-th
\* one is in Texas
TopPrograms(n, many, some, every) ==
    [i \in 1..n |->
        Program(Some(Roster[i]),
                Some(IF i % every = 0 THEN "TX" ELSE "CA"),
                IF i <= many THEN 50 ELSE IF i <= some THEN 20 ELSE 19)]
TopLists ==
    {TopPrograms(n, many, some, every) :
        n \in {k \in 0..MaxPrograms : k <= Len(Roster)},
        many \in 0..MaxPrograms, some \in {0, MaxPrograms}, every \in {2, 3}}
\* at most two of the regional programs, in their order
RegionalLists ==
    {<<>>} \cup {<<RegionalRoster[i]>> : i \in 1..Len(RegionalRoster)}
    \cup {<<RegionalRoster[i], RegionalRoster[j]>> :
              i \in 1..Len(RegionalRoster), j \in 1..Len(RegionalRoster)}
Payloads ==
    {[state |-> Some("TX"), geography |-> Some("In-state")],
     [state |-> Some("TX"), geography |-> Some("Anywhere")],
     [state |-> Some("TX"), geography |-> None],
     [state |-> None, geography |-> Some("In-state")]}

InitOnboarding ==
    /\ call = "create_from_onboarding" /\ pc = "called"
    /\ arg_payload \in Payloads
    /\ match_result \in
           [top_programs : TopLists,
            regional_programs : IF TruthyStr(arg_payload.state)
                                THEN {l \in RegionalLists :
                                        \A i \in 1..(Len(l) - 1) :
                                            l[i].offers_given > l[i + 1].offers_given}
                                ELSE {<<>>}]
    /\ college_targets = <<>> /\ colleges_matched = 0
    /\ arg_sql = "" /\ executed = <<>> /\ reply = NoReply
    /\ QueryIdle /\ PercentileIdle /\ arg_lower_is_better = FALSE
    /\ ComparisonIdle /\ CampIdle /\ PureIdle /\ ProfileIdle /\ finders = <<>>

OnboardingStep(rows, count) ==
    /\ college_targets' = rows
    /\ colleges_matched' = count
    /\ pc' = "returned"
    /\ UNCHANGED <<call, arg_payload, match_result, arg_sql, executed, reply,
                   queryvars, benchvars, campvars, purevars, profilevars, finders>>

\* the matching stores its rows: DELETE of the old rows, one INSERT per
\* program, commit
StoreTargets ==
    /\ call = "create_from_onboarding" /\ pc = "called"
    /\ matched_targets(match_result, arg_payload) # None
    /\ matched_targets(match_result, arg_payload)[1] # <<>>
    /\ OnboardingStep(matched_targets(match_result, arg_payload)[1],
                      Len(matched_targets(match_result, arg_payload)[1]))

\* no program matched, or the matching raised: the rows stay as they were
KeepTargets ==
    /\ call = "create_from_onboarding" /\ pc = "called"
    /\ \/ matched_targets(match_result, arg_payload) = None
       \/ matched_targets(match_result, arg_payload) = Some(<<>>)
    /\ OnboardingStep(college_targets, 0)

NextOnboarding == StoreTargets \/ KeepTargets
SpecOnboarding == InitOnboarding /\ [][NextOnboarding]_vars

(***************************************************************************)
(* Claims                                                                  *)
(***************************************************************************)
Returned(f) == call = f /\ pc = "returned"
QueryReturned ==
    Returned("build_search_query") \/ Returned("build_athlete_search_query")

Range(f) == {f[x] : x \in DOMAIN f}
Indices(sq, P(_)) == {i \in 1..Len(sq) : P(sq[i])}

\* C1: the query returned by build_athlete_search_query never holds two
\* metric joins with the same alias m_<alias>, whatever the Filters and
\* include_metrics.
C1_NoJoinAliasTwice ==
    QueryReturned =>
        \A i, j \in 1..Len(query.metric_joins) :
            i # j => query.metric_joins[i].join_alias # query.metric_joins[j].join_alias

\* C2: with verified_only the query holds exactly one "verified = 1"
\* predicate for each metric join it emits (from a Filter or from
\* include_metrics), and without verified_only it holds none.
C2_VerifiedPerJoin ==
    QueryReturned =>
        LET verified(a) == Indices(query.where_parts,
                                   LAMBDA w : w.kind = "verified" /\ w.alias = a)
            joined(a)   == Indices(query.metric_joins, LAMBDA j : j.join_alias = a)
            aliases     == {query.metric_joins[i].join_alias :
                               i \in 1..Len(query.metric_joins)}
        IN  IF arg_filters.verified_only
            THEN \A a \in aliases : Cardinality(verified(a)) = Cardinality(joined(a))
            ELSE \A i \in 1..Len(query.where_parts) :
                    query.where_parts[i].kind # "verified"

\* the shapes whose pattern matches the lower-cased text
MatchedShapes(t) == {i \in 1..4 : Search(ShapePattern[i], Lower(t)).ok}
FirstOf(S) == CHOOSE i \in S : \A j \in S : i <= j
\* the metric token and the number a shape's pattern captures in the text
TokenOf(t, i) == Group(Lower(t), Search(ShapePattern[i], Lower(t)), 2)
NumberOf(t, i) == Group(Lower(t), Search(ShapePattern[i], Lower(t)), 1)
Normalizes(token) == Strip(Lower(token)) \in DOMAIN METRIC_MAPPINGS

\* C3: once the pattern of a shape matches the text no later shape is
\* tried: the value returned is the Filter of the first shape whose
\* pattern matches, or None when that shape's metric token does not
\* normalize.
C3_FirstMatchingShapeDecides ==
    Returned("parse_metric_condition") /\ MatchedShapes(arg_text) # {} =>
        LET i == FirstOf(MatchedShapes(arg_text))
        IN  IF Normalizes(TokenOf(arg_text, i))
            THEN /\ parsed # None
                 /\ parsed[1].metric_name = METRIC_MAPPINGS[TokenOf(arg_text, i)]
                 /\ parsed[1].value = FloatOf(NumberOf(arg_text, i))
            ELSE parsed = None

GivenTuples ==
    IF request.metric_filters = None THEN <<>> ELSE request.metric_filters[1]
\* ... of which those whose metric name is a key of METRIC_MAPPINGS
ResolvedTuples == SelectSeq(GivenTuples, LAMBDA t : Normalizes(t[1]))
CanonicalOf(name) == METRIC_MAPPINGS[Strip(Lower(name))]

\* C5: a MetricFilter exists only for a metric that normalizes: its
\* metric_name is a value of METRIC_MAPPINGS; build_search_query drops the
\* tuples whose name does not normalize and keeps the other tuples, in
\* order, and the other search terms.
C5_OnlyNormalizedMetrics ==
    /\ Returned("parse_metric_condition") /\ parsed # None =>
          parsed[1].metric_name \in Range(METRIC_MAPPINGS)
    /\ Returned("build_search_query") =>
          /\ \A i \in 1..Len(arg_filters.metrics) :
                arg_filters.metrics[i].metric_name \in Range(METRIC_MAPPINGS)
          /\ Len(arg_filters.metrics) = Len(ResolvedTuples)
          /\ \A i \in 1..Len(ResolvedTuples) :
                /\ arg_filters.metrics[i].metric_name = CanonicalOf(ResolvedTuples[i][1])
                /\ arg_filters.metrics[i].operator = ResolvedTuples[i][2]
                /\ arg_filters.metrics[i].value = ResolvedTuples[i][3]
          /\ Cardinality(Indices(query.where_parts, LAMBDA w : w.kind = "metric"))
                = Len(ResolvedTuples)
          /\ request.state = Some(" Texas") =>
                \E i \in 1..Len(query.where_parts) :
                    query.where_parts[i] = [kind |-> "state", province |-> "TX"]
          /\ request.sport = Some("Football") =>
                \E i \in 1..Len(query.where_parts) :
                    query.where_parts[i] = [kind |-> "sport", sport_id |-> 1]
          /\ request.position = Some("QB") =>
                \E i \in 1..Len(query.where_parts) :
                    query.where_parts[i] =
                        [kind |-> "position", position_ids |-> <<211, 240, 302, 327>>]

\* C5 witness: a request whose first metric name does not normalize and
\* whose second does, with a state: one Filter and the state are kept.
C5_Witness ==
    /\ Returned("build_search_query")
    /\ request.metric_filters = Some(<<<<"burpees", "<", 10000>>, <<"40", "<", 4500>>>>)
    /\ request.state = Some(" Texas")
    /\ Len(arg_filters.metrics) = 1
    /\ arg_filters.metrics[1].metric_name = "40 Yard Dash"
    /\ arg_filters.state = Some("TX")

\* C6: every MetricFilter made by parse_metric_condition or by
\* build_search_query has an operator among <, <=, >, >=, =, and so has
\* every comparison predicate of a generated query.
C6_OperatorSet ==
    LET Operators == {"<", "<=", ">", ">=", "="}
    IN  /\ Returned("parse_metric_condition") /\ parsed # None =>
              parsed[1].operator \in Operators
        /\ Returned("build_search_query") =>
              /\ \A i \in 1..Len(arg_filters.metrics) :
                    arg_filters.metrics[i].operator \in Operators
              /\ \A i \in 1..Len(query.where_parts) :
                    query.where_parts[i].kind = "metric" =>
                        query.where_parts[i].operator \in Operators

\* C7: an ORDER BY is emitted iff there is a Filter; it orders by the first
\* Filter's metric, ascending iff that metric is in LOWER_IS_BETTER,
\* whatever the other Filters and the first Filter's operator.
C7_OrderByFirstMetric ==
    QueryReturned =>
        /\ (query.order_by # None) <=> (arg_filters.metrics # <<>>)
        /\ arg_filters.metrics # <<>> =>
              /\ query.order_by[1].alias = arg_filters.metrics[1].alias
              /\ query.order_by[1].direction \in {"ASC", "DESC"}
              /\ (query.order_by[1].direction = "ASC")
                    <=> (arg_filters.metrics[1].metric_name \in LOWER_IS_BETTER)

\* C7 witness: the first Filter is a lower-is-better metric with the
\* operator >=, the second is not lower-is-better: ascending.
C7_Witness ==
    /\ QueryReturned
    /\ Len(arg_filters.metrics) = 2
    /\ arg_filters.metrics[1].metric_name = "40 Yard Dash"
    /\ arg_filters.metrics[1].operator = ">="
    /\ arg_filters.metrics[2].metric_name = "Vertical Jump"
    /\ query.order_by = Some([alias |-> "40_yard_dash", direction |-> "ASC"])

\* the WHERE clause the claim describes, with Given (of a string) and
\* GivenInt (of a number) deciding whether an optional state, graduation
\* year or sport counts as provided
CountKind(kind) == Cardinality(Indices(query.where_parts, LAMBDA w : w.kind = kind))
PartsOfKind(kind) == SelectSeq(query.where_parts, LAMBDA w : w.kind = kind)
JoinAliases == {query.metric_joins[i].join_alias : i \in 1..Len(query.metric_joins)}
WhereIsExactly(Given(_), GivenInt(_)) ==
    LET f == arg_filters
        n == Len(f.metrics)
        one(b) == IF b THEN 1 ELSE 0
    IN  /\ SubSeq(query.where_parts, 1, 2) =
              <<[kind |-> "base", sql |-> "u.type = 1"],
                [kind |-> "base", sql |-> "u.visibility = 2"]>>
        /\ CountKind("base") = 2
        /\ PartsOfKind("state") =
              IF Given(f.state) THEN <<[kind |-> "state", province |-> f.state[1]]>>
              ELSE <<>>
        /\ PartsOfKind("graduation_year") =
              IF GivenInt(f.graduation_year)
              THEN <<[kind |-> "graduation_year", year |-> f.graduation_year[1]]>>
              ELSE <<>>
        /\ PartsOfKind("sport") =
              IF GivenInt(f.sport_id) THEN <<[kind |-> "sport", sport_id |-> f.sport_id[1]]>>
              ELSE <<>>
        /\ PartsOfKind("position") =
              IF f.positions # <<>>
              THEN <<[kind |-> "position", position_ids |-> f.positions]>>
              ELSE <<>>
        /\ Len(PartsOfKind("metric")) = n
        /\ \A i \in 1..n :
              /\ PartsOfKind("metric")[i].operator = f.metrics[i].operator
              /\ PartsOfKind("metric")[i].threshold = f.metrics[i].value
              /\ PartsOfKind("metric")[i].alias = f.metrics[i].alias
              /\ PartsOfKind("metric")[i].alias \in JoinAliases
        /\ CountKind("verified") = IF f.verified_only THEN n ELSE 0
        /\ Len(query.where_parts) =
              2 + one(Given(f.state)) + one(GivenInt(f.graduation_year))
                + one(GivenInt(f.sport_id)) + one(f.positions # <<>>)
                + n + CountKind("verified")

\* C8 as stated: the WHERE clause is exactly the two base predicates, one
\* equality predicate for each of state, graduation year and sport that is
\* provided (not None), one position predicate iff positions is non-empty,
\* one comparison per Filter in Filter order on a joined alias, and the
\* verification predicates.
C8_WhereExactlyProvided ==
    QueryReturned => WhereIsExactly(LAMBDA o : o # None, LAMBDA o : o # None)

\* C8 amended: as C8, an optional term counting as provided when it is
\* truthy (a state other than "", a graduation year or sport id other
\* than 0).
C8_WhereExactlyTruthy ==
    QueryReturned =>
        WhereIsExactly(LAMBDA o : o # None /\ o[1] # "",
                       LAMBDA o : o # None /\ o[1] # 0)

\* C8 witness: state, year, sport, positions, two Filters on different
\* metrics and verified_only: ten predicates.
C8_Witness ==
    /\ QueryReturned
    /\ arg_filters.state = Some("TX") /\ arg_filters.graduation_year = Some(2026)
    /\ arg_filters.sport_id = Some(1) /\ arg_filters.positions # <<>>
    /\ Len(arg_filters.metrics) = 2
    /\ arg_filters.metrics[1].alias # arg_filters.metrics[2].alias
    /\ arg_filters.verified_only
    /\ Len(query.where_parts) = 10

ResolvedIn(table, o) == o # None /\ Strip(Lower(o[1])) \in DOMAIN table
LookupIn(table, o) == table[Strip(Lower(o[1]))]

\* C9: build_search_query returns a query for any state, position, sport
\* and metric names: every predicate is a base predicate or that of an
\* input that resolved, only the base predicates when nothing resolves,
\* and the LIMIT is the caller's limit, 10 when none is given.
C9_UnresolvedTermsDropped ==
    Returned("build_search_query") =>
        /\ query.limit = (IF request.limit = None THEN 10 ELSE request.limit[1])
        /\ \A i \in 1..Len(query.where_parts) :
              LET w == query.where_parts[i] IN
              CASE w.kind = "base" -> TRUE
                [] w.kind = "state" ->
                     /\ ResolvedIn(STATE_MAPPINGS, request.state)
                     /\ w.province = LookupIn(STATE_MAPPINGS, request.state)
                [] w.kind = "sport" ->
                     /\ ResolvedIn(SPORT_MAPPINGS, request.sport)
                     /\ w.sport_id = LookupIn(SPORT_MAPPINGS, request.sport)
                [] w.kind = "position" ->
                     /\ ResolvedIn(POSITION_MAPPINGS, request.position)
                     /\ w.position_ids = LookupIn(POSITION_MAPPINGS, request.position)
                [] w.kind = "graduation_year" ->
                     request.graduation_year = Some(w.year)
                [] w.kind = "metric" ->
                     \E j \in 1..Len(ResolvedTuples) :
                        /\ w.alias = make_alias(CanonicalOf(ResolvedTuples[j][1]))
                        /\ w.operator = ResolvedTuples[j][2]
                        /\ w.threshold = ResolvedTuples[j][3]
                [] w.kind = "verified" ->
                     /\ request.verified_only
                     /\ \E j \in 1..Len(ResolvedTuples) :
                           w.alias = make_alias(CanonicalOf(ResolvedTuples[j][1]))
        /\ ( /\ ~ResolvedIn(STATE_MAPPINGS, request.state)
             /\ ~ResolvedIn(SPORT_MAPPINGS, request.sport)
             /\ ~ResolvedIn(POSITION_MAPPINGS, request.position)
             /\ request.graduation_year = None
             /\ ResolvedTuples = <<>> )
           => Len(query.where_parts) = 2

\* C9 witness: a state, a position, a sport and a metric name none of which
\* resolves, no limit given: the base predicates and LIMIT 10.
C9_Witness ==
    /\ Returned("build_search_query")
    /\ request.state = Some("Narnia") /\ request.position = Some("goalie")
    /\ request.sport = Some("quidditch")
    /\ request.metric_filters = Some(<<<<"burpees", "<", 10000>>>>)
    /\ request.graduation_year = None /\ request.limit = None
    /\ Len(query.where_parts) = 2 /\ query.metric_joins = <<>>
    /\ query.limit = 10

\* C10: for a fixed population the percentile is monotonic in the value:
\* non-decreasing when lower_is_better is false, non-increasing when it is
\* true.
C10_PercentileMonotonic ==
    \A a, b \in seen :
        a[1] <= b[1] =>
            IF arg_lower_is_better THEN a[2] >= b[2] ELSE a[2] <= b[2]

\* C10 witness: with lower_is_better, two values of which the larger got
\* the strictly lower percentile.
C10_Witness ==
    /\ arg_lower_is_better
    /\ \E a, b \in seen : a[1] < b[1] /\ a[2] > b[2]

\* C11: calculate_percentile returns 50 for an empty population; for a
\* population of n > 0 members of which the value strictly outperforms k
\* (ties do not count) it returns floor(100 k / n) clamped to [1, 99].
Outperformed(value, values, lower_is_better) ==
    Cardinality({i \in 1..Len(values) :
                    IF lower_is_better THEN value < values[i]
                                       ELSE value > values[i]})

C11_FloorClamped ==
    \A s \in seen :
        LET n == Len(arg_values)
            k == Outperformed(s[1], arg_values, arg_lower_is_better)
            f == (100 * k) \div n
        IN  IF n = 0 THEN s[2] = 50
            ELSE /\ s[2] = (IF f < 1 THEN 1 ELSE IF f > 99 THEN 99 ELSE f)
                 /\ s[2] \in 1..99

\* C12: every athlete with a value for the metric is in exactly one list:
\* similar_to iff |value - member| / member is below the tolerance (2% when
\* lower_is_better, 5% otherwise), otherwise better_than iff the subject
\* strictly outperforms the member, otherwise worse_than; an athlete without a
\* value is in no list; each list returned holds the first `limit` of its
\* members, in population order.
ClaimedBucket(value, athlete, lower_is_better) ==
    IF athlete.value = None THEN "none"
    ELSE LET member == athlete.value[1]
         IN  IF Abs(value - member) * 100 < (IF lower_is_better THEN 2 ELSE 5) * member
             THEN "similar_to"
             ELSE IF (IF lower_is_better THEN value < member ELSE value > member)
                  THEN "better_than"
                  ELSE "worse_than"

ClaimedMembers(bucket) ==
    SelectSeq([i \in 1..Len(arg_athletes) |-> i],
              LAMBDA i : ClaimedBucket(arg_value, arg_athletes[i], arg_lower_is_better) = bucket)

Listed(list, members) ==
    /\ Len(list) = Min2(arg_limit, Len(members))
    /\ \A j \in 1..Len(list) :
          /\ list[j].name = arg_athletes[members[j]].name
          /\ <<list[j].nfl_value>> = arg_athletes[members[j]].value

C12_OneBucketEach ==
    Returned("find_player_comparisons") =>
        /\ Listed(comparisons.better_than, ClaimedMembers("better_than"))
        /\ Listed(comparisons.similar_to, ClaimedMembers("similar_to"))
        /\ Listed(comparisons.worse_than, ClaimedMembers("worse_than"))

CampCalls == RankerCalls \cup {"find_camps_for_athlete"}
CampReturned == call \in CampCalls /\ pc = "returned"
FitScore(id) == heap[id].fit_score[1]
PositionIn(list, id) == CHOOSE i \in 1..Len(list) : list[i] = id

\* C13: with the same athlete and the same current date, a ranker applied
\* to a list of events and then to its own result gives every event the same
\* fit_score and the same ordered fit_reasons both times, and the same order
\* of events.
SameDate(readings) == \A r1, r2 \in readings : r1.day = r2.day

C13_Idempotent ==
    Len(history) >= 2 =>
        (SameDate(history[1].readings \cup history[2].readings) =>
            /\ history[2].ranked = history[1].ranked
            /\ history[2].scores = history[1].scores)

\* C14: in every ranker, fit_score - 100 is the sum of the deltas of the
\* rules whose reasons are listed in fit_reasons: no rule changes the score
\* without appending its reason.
EndsWith(s, w) == Len(s) >= Len(w) /\ SubSeq(s, Len(s) - Len(w) + 1, Len(s)) = w

DeltaOfReason(reason) ==
    CASE reason = "In your city"                -> 20
      [] reason = "Very close"                  -> 15
      [] reason = "Reasonable distance"         -> 10
      [] reason = "Far from home"               -> 0 - 10
      [] EndsWith(reason, " miles away")        -> 0 - 5
      [] reason = "Affordable"                  -> 15
      [] reason = "Expensive"                   -> 0 - 15
      [] reason = "Good timing"                 -> 15
      [] reason = "Very soon - may be too late" -> 0 - 10
      [] reason = "Very soon"                   -> 0 - 10
      [] reason = "Far in future"               -> 0 - 5
      [] reason = "Verified event"              -> 10
      [] reason = "Verified by agent"           -> 10
      [] reason = "College coaches attending"   -> 10
      [] EndsWith(reason, " coach groups")      -> 10
      [] reason = "Official testing"            -> 5
      [] reason = "Agent recommended"           -> 5

RECURSIVE DeltasOfReasons(_, _)
DeltasOfReasons(reasons, n) ==
    IF n = 0 THEN 0
    ELSE DeltasOfReasons(reasons, n - 1) + DeltaOfReason(reasons[n])

C14_ReasonsAccountForScore ==
    CampReturned =>
        \A id \in DOMAIN heap :
            FitScore(id) - 100 =
                DeltasOfReasons(heap[id].fit_reasons[1], Len(heap[id].fit_reasons[1]))

\* C15: the list a ranker returns is a permutation of the list it was given,
\* in non-increasing order of fit_score, events of equal fit_score in the
\* order they were given; so each of the first max_results events that
\* find_camps_for_athlete returns scores at least as high as every event it
\* leaves out.
C15_SortedStablePermutation ==
    CampReturned =>
        /\ Len(ranked) = Len(arg_events)
        /\ \A id \in DOMAIN heap :
              Cardinality({i \in 1..Len(ranked) : ranked[i] = id})
                  = Cardinality({i \in 1..Len(arg_events) : arg_events[i] = id})
        /\ \A i, j \in 1..Len(ranked) :
              i < j =>
                  /\ FitScore(ranked[i]) >= FitScore(ranked[j])
                  /\ FitScore(ranked[i]) = FitScore(ranked[j]) =>
                        PositionIn(arg_events, ranked[i]) < PositionIn(arg_events, ranked[j])
        /\ call = "find_camps_for_athlete" =>
              /\ Len(top_events) = Min2(arg_max_results, Len(ranked))
              /\ \A i \in 1..Len(top_events) :
                    /\ top_events[i] = ranked[i]
                    /\ \A j \in (Len(top_events) + 1)..Len(ranked) :
                          FitScore(top_events[i]) >= FitScore(ranked[j])

\* C15 witness: find_camps_for_athlete returned one of two events, the one
\* given second, which scored strictly higher.
C15_Witness ==
    /\ call = "find_camps_for_athlete" /\ pc = "returned"
    /\ arg_events = <<1, 2>> /\ top_events = <<2>>
    /\ FitScore(2) > FitScore(1)

\* C16: for an athlete whose city is Houston, the rankers that score
\* distance and cost rank an event in 'Houston, TX' with cost 75 above an
\* event in 'Dallas, TX' with distance 240 and cost 150 whenever their date,
\* verified, coaches and testing are equal.
HoustonEvent(id) ==
    heap[id].location = "Houston, TX" /\ heap[id].cost = Some(75)

DallasEvent(id) ==
    /\ heap[id].location = "Dallas, TX"
    /\ heap[id].distance_miles = Some(240) /\ heap[id].cost = Some(150)

OthersEqual(a, b) ==
    /\ heap[a].date = heap[b].date /\ heap[a].verified = heap[b].verified
    /\ heap[a].coaches = heap[b].coaches /\ heap[a].testing = heap[b].testing

C16_HoustonAboveDallas ==
    (CampReturned /\ call # "autonomous_camp_finder._rank_camps"
                  /\ arg_athlete.city = Some("Houston")) =>
        \A a, b \in DOMAIN heap :
            (HoustonEvent(a) /\ DallasEvent(b) /\ OthersEqual(a, b)) =>
                PositionIn(ranked, a) < PositionIn(ranked, b)

\* C16 witness: camp_finder_standalone was given the Dallas event before the
\* Houston event and returned them the other way round.
C16_Witness ==
    /\ call = "camp_finder_standalone._rank_events" /\ pc = "returned"
    /\ arg_athlete.city = Some("Houston")
    /\ arg_events = <<1, 2>> /\ ranked = <<2, 1>>
    /\ HoustonEvent(2) /\ DallasEvent(1) /\ OthersEqual(1, 2)

\* what the normalizer f returns for the term t
NormalizedBy(f, t) ==
    CASE f = "normalize_metric"   -> normalize_metric(t)
      [] f = "normalize_position" -> normalize_position(t)
      [] f = "normalize_state"    -> normalize_state(t)
      [] f = "normalize_sport"    -> normalize_sport(t)

NormalizerReturned == pc = "returned" /\ call \in Normalizers

\* C17: every normalizer returns, for every string that differs from its
\* argument only in letter case or in the whitespace around it, what it
\* returned for the argument; '40', '40-Yard Dash ' and 'FORTY' are all
\* normalized to '40 Yard Dash'.
C17_CaseAndSpaceInsensitive ==
    /\ NormalizerReturned =>
           \A v \in Variants(arg_text) : NormalizedBy(call, v) = parsed
    /\ Returned("normalize_metric") /\ arg_text \in {"40", "40-Yard Dash ", "FORTY"}
           => parsed = Some("40 Yard Dash")

C17_Witness ==
    /\ Returned("normalize_metric") /\ arg_text = "40-Yard Dash "
    /\ parsed = Some("40 Yard Dash")
    /\ "40-YARD DASH " \in Variants(arg_text)

\* the static table the normalizer f looks its term up in
TableOf(f) ==
    CASE f = "normalize_metric"   -> METRIC_MAPPINGS
      [] f = "normalize_position" -> POSITION_MAPPINGS
      [] f = "normalize_state"    -> STATE_MAPPINGS
      [] f = "normalize_sport"    -> SPORT_MAPPINGS

\* C18: for a string that, lower-cased and trimmed, is no key of the
\* normalizer's table, normalize_metric, normalize_state and normalize_sport
\* return None and normalize_position returns the empty list: no partial
\* or nearest match is returned.
C18_NoMatchNoResult ==
    NormalizerReturned /\ Strip(Lower(arg_text)) \notin DOMAIN TableOf(call)
        => IF call = "normalize_position" THEN parsed = <<>> ELSE parsed = None

C18_Witness ==
    /\ Returned("normalize_sport") /\ arg_text = "\tFOOT \n"
    /\ parsed = None
    /\ \E k \in DOMAIN SPORT_MAPPINGS : SubSeq(k, 1, 4) = "foot"

\* the patterns in the order the specification gives them: 'class of YYYY',
\* 'graduating/grad YYYY', 'YYYY class/athlete(s)/recruit(s)', bare year
ClaimedYearPatterns ==
    <<class_of_pattern, graduating_pattern, year_noun_pattern, bare_year_pattern>>

MatchingYearPatterns(t) ==
    {i \in 1..Len(ClaimedYearPatterns) : Search(ClaimedYearPatterns[i], Lower(t)).ok}

CapturedYear(t, i) ==
    IntOf(Group(Lower(t), Search(ClaimedYearPatterns[i], Lower(t)), 1))

\* C19: parse_graduation_year returns the year captured by the first
\* pattern, in the order given, that matches the text, and None when no
\* pattern matches: 2026 for 'Class of 2026 athletes', None for
\* 'nothing relevant'.
C19_FirstMatchingPattern ==
    Returned("parse_graduation_year") =>
        /\ \A i \in MatchingYearPatterns(arg_text) :
               (\A j \in MatchingYearPatterns(arg_text) : i <= j)
                   => parsed = Some(CapturedYear(arg_text, i))
        /\ MatchingYearPatterns(arg_text) = {} => parsed = None
        /\ arg_text = "Class of 2026 athletes" => parsed = Some(2026)
        /\ arg_text = "nothing relevant" => parsed = None

\* a text whose earliest year belongs to a later pattern
C19_Witness ==
    /\ Returned("parse_graduation_year")
    /\ arg_text = "2025 athletes class of 2026"
    /\ MatchingYearPatterns(arg_text) = {1, 3, 4}
    /\ parsed = Some(2026)

PercentileAsSorted(db, title, value) ==
    LET filters == SearchFilters(<<MetricFilter(title, "<", 0, make_alias(title))>>,
                                 <<>>, None, None, None, 10, FALSE)
        asc     == OrderBy(filters)[1].direction = "ASC"
        rows    == NumericRows(db, title)
        worse   == {u \in rows : IF asc THEN FloatOf(db[u][title][1]) > FloatOf(value)
                                        ELSE FloatOf(db[u][title][1]) < FloatOf(value)}
    IN  RoundPercent(Cardinality(worse), Cardinality(rows))

\* the canonical titles the keys of compare_to_nfl stand for
SharedKeys == {k \in DOMAIN metric_configs : normalize_metric(k) # None}

\* C21: one classification decides whether lower is better.  The
\* percentile analyze_profile reports for a title is counted in the
\* direction build_athlete_search_query sorts that title by (membership in
\* LOWER_IS_BETTER), and compare_to_nfl gives each key it shares with the
\* metric table that same direction.
C21_OneDirection ==
    /\ Returned("analyze_profile") =>
           \A i \in 1..Len(analysis.metrics) :
               analysis.metrics[i].percentile # None =>
                   analysis.metrics[i].percentile[1] =
                       PercentileAsSorted(metrics_db, analysis.metrics[i].metric,
                                          analysis.metrics[i].value)
    /\ \A k \in SharedKeys :
           metric_configs[k].lower_is_better
               = (normalize_metric(k)[1] \in LOWER_IS_BETTER)

\* C26: every percentile analyze_profile reports lies in 1..99, never 0 and
\* never 100, whatever the athlete's value and the population.
C26_ProfilePercentileClamped ==
    Returned("analyze_profile") =>
        \A i \in 1..Len(analysis.metrics) :
            analysis.metrics[i].percentile # None =>
                analysis.metrics[i].percentile[1] \in 1..99

\* the events of a returned call carry what its own athlete's rules give
OwnScores(p) ==
    \A n \in 1..Len(finders[p].camps) :
        LET id   == finders[p].camps[n]
            mine == Scored(heap[id], agent_rules(heap[id], finders[p].athlete, now))
        IN  /\ heap[id].fit_score = mine.fit_score
            /\ heap[id].fit_reasons = mine.fit_reasons

\* C22: two find_camps_for_athlete calls that interleave score event
\* objects of their own: no object is in the lists of both, and the
\* fit_score and fit_reasons of the camps a call returned are, from then
\* on, those of its own athlete.
C22_EventsNotShared ==
    /\ \A p, q \in Callers :
           p # q => \A m \in 1..Len(finders[p].all_events),
                       n \in 1..Len(finders[q].all_events) :
                       finders[p].all_events[m] # finders[q].all_events[n]
    /\ \A p \in Callers : finders[p].pc = "returned" => OwnScores(p)

\* both calls returned, for athletes of different cities, and the camp of
\* the same name has a different score in each
C22_Witness ==
    /\ call = "find_camps_for_athlete" /\ pc = "running"
    /\ finders[1].pc = "returned" /\ finders[2].pc = "returned"
    /\ finders[1].athlete # finders[2].athlete
    /\ \E m \in 1..Len(finders[1].camps), n \in 1..Len(finders[2].camps) :
           /\ heap[finders[1].camps[m]].name = heap[finders[2].camps[n]].name
           /\ heap[finders[1].camps[m]].fit_score # heap[finders[2].camps[n]].fit_score

\* the two _rank_events, and the ranker a call runs
EventRankerCalls ==
    {"camp_finder_agent._rank_events", "camp_finder_standalone._rank_events"}
RankerOf(c) == SubSeq(c, 1, Len(c) - (IF c \in EventRankerCalls THEN 13 ELSE 12))
EventsRanked == call \in EventRankerCalls /\ pc = "returned"

\* the city an athlete's record gives a ranker
ClaimedCity(c, athlete) ==
    CityOf(athlete, IF c = "camp_finder_agent._rank_events" THEN "Houston" ELSE "")

IsProximityReason(reason) ==
    \/ reason \in {"In your city", "Very close", "Reasonable distance", "Far from home"}
    \/ EndsWith(reason, " miles away")

\* the proximity delta the rule of C23 gives an event
ClaimedProximity(c, event, athlete) ==
    IF Contains(LowerTable[event.location], LowerTable[ClaimedCity(c, athlete)])
    THEN 20
    ELSE IF event.distance_miles = None THEN 0
    ELSE IF event.distance_miles[1] < 50 THEN 15
    ELSE IF event.distance_miles[1] < 150 THEN 10
    ELSE IF c = "camp_finder_agent._rank_events" THEN 0 - 10 ELSE 0 - 5

\* C23: an event _rank_events has scored carries at most one proximity
\* reason, and its proximity delta is +20 when its location contains the
\* athlete's city whatever the case, and otherwise the delta of the one
\* tier its distance_miles falls in (below 50: +15, 50 to below 150: +10,
\* 150 or more: -10 in camp_finder_agent and -5 in camp_finder_standalone),
\* the distance 0 included; an event without a distance gets none.
C23_ProximityTiers ==
    EventsRanked =>
        \A id \in DOMAIN heap :
            LET proximity == SelectSeq(heap[id].fit_reasons[1], IsProximityReason)
            IN  /\ Len(proximity) <= 1
                /\ DeltasOfReasons(proximity, Len(proximity))
                       = ClaimedProximity(call, heap[id], arg_athlete)

\* what the rules other than the n-th add to the score of an event
DeltaOfOthers(c, event, athlete, reading, n) ==
    LET rules == RulesOf(RankerOf(c), event, athlete, reading)
    IN  SumOfDeltas(rules, Len(rules)) - rules[n].delta

\* the cost delta the rule of C24 gives an event
ClaimedCost(event) ==
    IF event.cost = None THEN 0
    ELSE IF event.cost[1] < 100 THEN 15
    ELSE IF event.cost[1] < 200 THEN 5
    ELSE IF event.cost[1] > 300 THEN 0 - 15
    ELSE 0

\* C24: in the three camp rankers the cost rule adds +15 to the score of
\* an event whose cost is below 100 (0 included), +5 for a cost from 100
\* to below 200, -15 for a cost above 300, and nothing for a cost from 200
\* to 300 or for an event without a cost.
C24_CostTiers ==
    CampReturned /\ call \in RankerCalls =>
        \A id \in DOMAIN heap :
            \E reading \in history[Len(history)].readings :
                FitScore(id) - 100 - DeltaOfOthers(call, heap[id], arg_athlete, reading, 2)
                    = ClaimedCost(heap[id])

\* the timing delta the rule of C25 gives an event, the clock reading
\* `reading` when the event is scored
ClaimedTiming(event, reading) ==
    IF event.date = None \/ StrptimeTable[event.date[1]] = None THEN 0
    ELSE LET days == days_away(StrptimeTable[event.date[1]][1], reading)
         IN  IF days \in 14..45 THEN 15
             ELSE IF days < 7 THEN 0 - 10
             ELSE IF days > 90 THEN 0 - 5
             ELSE 0

ContainsWord(text, keyword) ==
    \E pos \in 1..Len(text) :
        /\ StartsWith(text, pos, keyword)
        /\ ~IsWordAt(text, pos - 1)
        /\ ~IsWordAt(text, pos + Len(keyword))

\* the statement is one the claim lets through
ReadOnlyStatement(sql) ==
    LET sql_upper == Upper(Strip(sql))
    IN  /\ StartsWith(sql_upper, 1, "SELECT")
        /\ \A k \in 1..Len(FORBIDDEN_SQL) : ~ContainsWord(sql_upper, FORBIDDEN_SQL[k])
ReadOnlyTable == [sql \in SqlInputs |-> ReadOnlyStatement(sql)]

\* C27: _run_read_only_query sends a statement to the database only if,
\* trimmed and upper-cased, it starts with SELECT and holds none of the
\* write keywords as a word, whatever stands next to the keyword; any
\* other statement gives an error value and nothing is sent; and a call
\* that succeeds returns at most 50 rows.
C27_ReadOnly ==
    Returned("_run_read_only_query") =>
        /\ \A n \in 1..Len(executed) : ReadOnlyTable[executed[n]]
        /\ ~ReadOnlyTable[arg_sql] => reply.error # None /\ executed = <<>>
        /\ reply.rows # None => Len(reply.rows[1]) <= 50

\* the numeric literals written in a text, each whole: <<first, last>> of a
\* run of digits, with one point and the digits after it if any, that no
\* digit or point-after-digit precedes
IsDigitAt(s, i) == i >= 1 /\ i <= Len(s) /\ CharAt(s, i) \in Digits
RECURSIVE DigitsEnd(_, _)
DigitsEnd(s, i) == IF IsDigitAt(s, i + 1) THEN DigitsEnd(s, i + 1) ELSE i
LiteralEnd(s, first) ==
    LET int_end == DigitsEnd(s, first)
    IN  IF int_end < Len(s) /\ CharAt(s, int_end + 1) = "."
        THEN DigitsEnd(s, int_end + 1)
        ELSE int_end
CompleteLiterals(s) ==
    {<<first, LiteralEnd(s, first)>> : first \in
        {i \in 1..Len(s) :
            /\ IsDigitAt(s, i)
            /\ ~IsDigitAt(s, i - 1)
            /\ ~(i >= 3 /\ CharAt(s, i - 1) = "." /\ IsDigitAt(s, i - 2))}}

\* the metric tokens the four shapes accept
MetricTokens ==
    {"40", "forty", "vert", "vertical", "shuttle", "bench", "broad", "height",
     "weight", "5-10-5"}

\* C28: a Filter parse_metric_condition returns has for value a numeric
\* literal of the text taken whole, and for metric a metric token that is
\* written after that literal: no part of the digits of the literal is
\* read as the metric token.
C28_LiteralNotSplit ==
    Returned("parse_metric_condition") /\ parsed # None =>
        LET text_lower == Lower(arg_text)
        IN  \E literal \in CompleteLiterals(text_lower) :
                /\ FloatOf(SubSeq(text_lower, literal[1], literal[2])) = parsed[1].value
                /\ \E token \in MetricTokens :
                       /\ normalize_metric(token) = Some(parsed[1].metric_name)
                       /\ \E pos \in (literal[2] + 1)..Len(text_lower) :
                              StartsWith(text_lower, pos, token)

\* C29: a year parse_graduation_year returns lies in 2024..2030, whichever
\* of the four patterns captured it.
C29_PlausibleYear ==
    Returned("parse_graduation_year") /\ parsed # None => parsed[1] \in 2024..2030

\* the program a stored row was made from, its offer-count tier and
\* whether the region bonus applies to it
ProgramOf(row) ==
    LET all == match_result.top_programs \o match_result.regional_programs
    IN  all[CHOOSE i \in 1..Len(all) :
                /\ all[i].name = Some(row.college_name)
                /\ \A j \in 1..(i - 1) : all[j].name # Some(row.college_name)]
OfferTier(program) ==
    IF program.offers_given >= 50 THEN 3 ELSE IF program.offers_given >= 20 THEN 2 ELSE 1
InRegion(program) ==
    /\ arg_payload.geography = Some("In-state")
    /\ arg_payload.state # None
    /\ program.state = arg_payload.state

\* C30: the rows create_from_onboarding stores for the matched programs
\* are at most 12, no two with the same trimmed, lower-cased name; every
\* fit_score lies in 70..95; and of two programs of the same offer-count
\* tier and the same in-region status the earlier one has a fit_score at
\* least that of the later one.
C30_MatchedPrograms ==
    Returned("create_from_onboarding") =>
        /\ Len(college_targets) <= 12
        /\ \A m, n \in 1..Len(college_targets) :
               m # n => ProgramKey[college_targets[m].college_name]
                           # ProgramKey[college_targets[n].college_name]
        /\ \A n \in 1..Len(college_targets) : college_targets[n].fit_score \in 70..95
        /\ \A m, n \in 1..Len(college_targets) :
               /\ m < n
               /\ OfferTier(ProgramOf(college_targets[m]))
                      = OfferTier(ProgramOf(college_targets[n]))
               /\ InRegion(ProgramOf(college_targets[m]))
                      = InRegion(ProgramOf(college_targets[n]))
               => college_targets[m].fit_score >= college_targets[n].fit_score

\* thirteen organizations and a regional program whose name differs from
\* the first one's in case and spaces only: twelve rows are stored, the
\* regional one is not among them, and the last row scores below an earlier
\* one of its tier that is in the region as it is
C30_Witness ==
    /\ Returned("create_from_onboarding")
    /\ Len(match_result.top_programs) = 13
    /\ match_result.regional_programs = <<RegionalRoster[1]>>
    /\ arg_payload.geography = Some("In-state")
    /\ Len(college_targets) = 12 /\ colleges_matched = 12
    /\ college_targets[1].college_name = "Alabama"
    /\ college_targets[12].fit_score < college_targets[2].fit_score
    /\ OfferTier(ProgramOf(college_targets[2])) = OfferTier(ProgramOf(college_targets[12]))
    /\ InRegion(ProgramOf(college_targets[2]))
    /\ InRegion(ProgramOf(college_targets[12]))

====
